---- MODULE Spec2Model ----
(***************************************************************************)
(* A model of the AHL game-report scraper (scrapper.py, program.py): the   *)
(* outcome classifier, the line-report helpers and extractor, the HTML     *)
(* extractor and the entry points that fetch, parse and persist a game.    *)
(* Strings are TLA+ strings; the Python string and regex operations the    *)
(* code uses are defined below by what they do on the characters.          *)
(***************************************************************************)
EXTENDS Integers, Sequences, FiniteSets, TLC

VARIABLES
    arg,            \* the arguments of the function or entry point applied
    ret,            \* what the functions applied so far returned, by name
    db,             \* games.db: the games_extended, goals, penalties and
                    \* officials tables, and the games and unplayed_games
                    \* tables
    loop,           \* the batch loop of an entry point: iterations done and
                    \* the results list
    locals          \* the last iteration or call: the request it made, its
                    \* game_info, whether it wrote the game

pureVars == <<arg, ret>>

vars == <<arg, ret, db, loop, locals>>

\* ---------------------------------------------------------------- bounds

\* Largest overtime count <k> written into a synthesized status "/<k>OT".
MaxOT == 12

\* ------------------------------------------------------- Python strings

\* None where the other values are strings.
None == "<<None>>"

Digits == {"0", "1", "2", "3", "4", "5", "6", "7", "8", "9"}

UpperCase ==
    {"A", "B", "C", "D", "E", "F", "G", "H", "I", "J", "K", "L", "M",
     "N", "O", "P", "Q", "R", "S", "T", "U", "V", "W", "X", "Y", "Z"}

LowerCase ==
    {"a", "b", "c", "d", "e", "f", "g", "h", "i", "j", "k", "l", "m",
     "n", "o", "p", "q", "r", "s", "t", "u", "v", "w", "x", "y", "z"}

\* \w of the re module: letters, digits and the underscore.
WordChars == Digits \cup UpperCase \cup LowerCase \cup {"_"}

\* \s of the re module, and what str.strip() removes.
SpaceChars == {" ", "\t", "\n", "\r"}

DigitValue ==
    "0" :> 0 @@ "1" :> 1 @@ "2" :> 2 @@ "3" :> 3 @@ "4" :> 4 @@
    "5" :> 5 @@ "6" :> 6 @@ "7" :> 7 @@ "8" :> 8 @@ "9" :> 9

DigitChar == <<"1", "2", "3", "4", "5", "6", "7", "8", "9">>

LowerOf ==
    "A" :> "a" @@ "B" :> "b" @@ "C" :> "c" @@ "D" :> "d" @@ "E" :> "e" @@
    "F" :> "f" @@ "G" :> "g" @@ "H" :> "h" @@ "I" :> "i" @@ "J" :> "j" @@
    "K" :> "k" @@ "L" :> "l" @@ "M" :> "m" @@ "N" :> "n" @@ "O" :> "o" @@
    "P" :> "p" @@ "Q" :> "q" @@ "R" :> "r" @@ "S" :> "s" @@ "T" :> "t" @@
    "U" :> "u" @@ "V" :> "v" @@ "W" :> "w" @@ "X" :> "x" @@ "Y" :> "y" @@
    "Z" :> "z"

Min(S) == CHOOSE x \in S : \A y \in S : x <= y

Max(S) == CHOOSE x \in S : \A y \in S : x >= y

\* s[i] (1-based), "" past either end.
CharAt(s, i) == IF i >= 1 /\ i <= Len(s) THEN SubSeq(s, i, i) ELSE ""

\* s[i-1:j] of Python: the characters i..j of s that exist.
Slice(s, i, j) ==
    SubSeq(s, IF i < 1 THEN 1 ELSE i, IF j > Len(s) THEN Len(s) ELSE j)

\* s[i:] of Python, 1-based: the text from position i on.
Suffix(s, i) == SubSeq(s, i, Len(s))

\* s.startswith(sub, i-1)
StartsWithAt(s, sub, i) ==
    /\ i >= 1
    /\ i + Len(sub) - 1 <= Len(s)
    /\ SubSeq(s, i, i + Len(sub) - 1) = sub

StartsWith(s, sub) == StartsWithAt(s, sub, 1)

\* The positions where sub occurs in s.
Occurrences(s, sub) == {i \in 1..(Len(s) - Len(sub) + 1) : StartsWithAt(s, sub, i)}

\* sub in s
Contains(s, sub) == Occurrences(s, sub) # {}

\* s.find(sub, from-1) + 1, and 0 when sub does not occur from there on.
Find(s, sub, from) ==
    LET First(later) == IF later = {} THEN 0 ELSE Min(later)
    IN  First({i \in Occurrences(s, sub) : i >= from})

\* The position after the longest run of characters of class C that starts
\* at i: what a greedy C* consumes. The run is followed eight characters at
\* a time.
RECURSIVE RunEnd(_, _, _)
RunEnd(s, i, C) ==
    LET last == Min({Len(s), i + 7})
        stops == {j \in i..last : SubSeq(s, j, j) \notin C}
    IN  IF i > Len(s) THEN i
        ELSE IF stops # {} THEN Min(stops)
        ELSE RunEnd(s, last + 1, C)

\* The position before the longest run of characters of class C ending at i.
RECURSIVE RunStart(_, _, _)
RunStart(s, i, C) ==
    LET first == Max({1, i - 7})
        stops == {j \in first..i : SubSeq(s, j, j) \notin C}
    IN  IF i < 1 THEN i
        ELSE IF stops # {} THEN Max(stops)
        ELSE RunStart(s, first - 1, C)

\* s.strip()
Strip(s) ==
    LET Between(b, e) == IF b > e THEN "" ELSE SubSeq(s, b, e)
    IN  Between(RunEnd(s, 1, SpaceChars), RunStart(s, Len(s), SpaceChars))

\* s.rstrip()
RStrip(s) == SubSeq(s, 1, RunStart(s, Len(s), SpaceChars))

\* s.lower()
RECURSIVE Lower(_)
Lower(s) ==
    IF s = "" THEN ""
    ELSE LET c == SubSeq(s, 1, 1)
         IN  (IF c \in UpperCase THEN LowerOf[c] ELSE c) \o Lower(Suffix(s, 2))

\* s.isdigit() for the ASCII texts of the model.
IsDigits(s) == s # "" /\ RunEnd(s, 1, Digits) = Len(s) + 1

\* The value of a string of digits.
RECURSIVE DigitsValue(_)
DigitsValue(s) ==
    IF s = "" THEN 0
    ELSE 10 * DigitsValue(SubSeq(s, 1, Len(s) - 1)) + DigitValue[SubSeq(s, Len(s), Len(s))]

\* str(n) for n >= 0
RECURSIVE PyStr(_)
PyStr(n) ==
    IF n < 10 THEN (IF n = 0 THEN "0" ELSE DigitChar[n])
    ELSE PyStr(n \div 10) \o (IF n % 10 = 0 THEN "0" ELSE DigitChar[n % 10])

\* s.split(sep), sep not empty: the pieces between the non-overlapping
\* occurrences of sep taken left to right, empty pieces kept. An occurrence
\* that overlaps no other one is a cut whatever is cut before it, so the
\* text is cut at the one nearest its middle first and the halves are split
\* on their own; where every occurrence overlaps another, the leftmost is
\* the cut.
RECURSIVE Split(_, _)
Split(s, sep) ==
    LET Alone(at) ==
            {p \in at : \A q \in at : q = p \/ q >= p + Len(sep) \/ p >= q + Len(sep)}
        Off(p) == IF 2 * p >= Len(s) THEN 2 * p - Len(s) ELSE Len(s) - 2 * p
        Cut(at, alone) ==
            IF alone = {} THEN Min(at)
            ELSE CHOOSE p \in alone :
                    \A q \in alone : Off(p) < Off(q) \/ (Off(p) = Off(q) /\ p <= q)
        CutAt(cut) ==
            Split(SubSeq(s, 1, cut - 1), sep) \o Split(Suffix(s, cut + Len(sep)), sep)
        SplitAt(at) == IF at = {} THEN <<s>> ELSE CutAt(Cut(at, Alone(at)))
    IN  SplitAt(Occurrences(s, sep))

\* sep.join(parts)
RECURSIVE Join(_, _)
Join(parts, sep) ==
    IF parts = <<>> THEN ""
    ELSE IF Len(parts) = 1 THEN parts[1]
    ELSE Join(SubSeq(parts, 1, Len(parts) \div 2), sep) \o sep
            \o Join(SubSeq(parts, Len(parts) \div 2 + 1, Len(parts)), sep)

\* s.replace(old, new), old not empty: every non-overlapping occurrence,
\* left to right.
Replace(s, old, new) == Join(Split(s, old), new)

\* s.split(sep, 1)
Split1(s, sep) ==
    LET CutAt(p) == IF p = 0 THEN <<s>>
                    ELSE <<SubSeq(s, 1, p - 1), Suffix(s, p + Len(sep))>>
    IN  CutAt(Find(s, sep, 1))

\* What int(s) reads once whitespace and one sign are taken off.
IntBody(s) ==
    LET Unsigned(t) ==
            IF t # "" /\ SubSeq(t, 1, 1) \in {"+", "-"} THEN Suffix(t, 2) ELSE t
    IN  Unsigned(Strip(s))

\* int(s) raises ValueError unless the body is digits, single underscores
\* between digits allowed.
IntRaises(s) ==
    LET Reads(b) == /\ b # ""
                    /\ RunEnd(b, 1, Digits \cup {"_"}) = Len(b) + 1
                    /\ SubSeq(b, 1, 1) # "_"
                    /\ SubSeq(b, Len(b), Len(b)) # "_"
                    /\ ~Contains(b, "__")
    IN  ~Reads(IntBody(s))

\* int(s) where it does not raise.
PyInt(s) ==
    LET Signed(v) == IF StartsWith(Strip(s), "-") THEN 0 - v ELSE v
    IN  Signed(DigitsValue(Replace(IntBody(s), "_", "")))

\* ------------------------------------------------------ outcome classifier

REGULATION == "regulation"
OVERTIME == "overtime"
SHOOTOUT == "shootout"

\* As SearchDigitsOT, for the pattern (\d)OT: one digit only.
SearchOneDigitOT(s) ==
    LET Group(starts) ==
            IF starts = {} THEN None ELSE SubSeq(s, Min(starts), Min(starts))
    IN  Group({i \in 1..Len(s) :
                 /\ SubSeq(s, i, i) \in Digits
                 /\ StartsWithAt(s, "OT", i + 1)})

\* re.search(r"(\d+)OT", s).group(1), or None: \d+ is greedy and "O" is no
\* digit, so a match at i takes the whole digit run from i and needs "OT"
\* right after it; search returns the leftmost such i.
SearchDigitsOT(s) ==
    LET Group(starts) ==
            IF starts = {} THEN None
            ELSE SubSeq(s, Min(starts), RunEnd(s, Min(starts), Digits) - 1)
    IN  Group({i \in 1..Len(s) :
                 /\ SubSeq(s, i, i) \in Digits
                 /\ StartsWithAt(s, "OT", RunEnd(s, i, Digits))})

detect_overtime_periods(game_status) ==
    LET Periods(match) ==
            IF match # None THEN DigitsValue(match)
            ELSE IF Contains(game_status, "OT") THEN 1
            ELSE 0
    IN  IF ~Contains(game_status, "OT") THEN 0
        ELSE Periods(SearchDigitsOT(game_status))

detect_shootout(game_status) ==
    Contains(game_status, "SO") \/ Contains(Lower(game_status), "shootout")

\* As determine_game_format, with the overtime test made before the
\* shootout test.
determine_game_format_overtime_first(game_status) ==
    IF detect_overtime_periods(game_status) > 0 THEN OVERTIME
    ELSE IF detect_shootout(game_status) THEN SHOOTOUT
    ELSE REGULATION

determine_game_format(game_status) ==
    IF detect_shootout(game_status) THEN SHOOTOUT
    ELSE IF detect_overtime_periods(game_status) > 0 THEN OVERTIME
    ELSE REGULATION

\* ------------------------------------------ the classifier on its own

\* "Final" followed by an optional "/<k>OT" (k = 0 stands for the part being
\* absent, bare for "/OT") and an optional "/SO".
SynthStatus(k, bare, so) ==
    "Final"
    \o (IF k = 0 THEN "" ELSE IF bare THEN "/OT" ELSE "/" \o PyStr(k) \o "OT")
    \o (IF so THEN "/SO" ELSE "")

SynthArgs ==
    {[status |-> SynthStatus(k, b, so), synth |-> TRUE, k |-> k, so |-> so] :
        k \in 0..MaxOT, b \in {FALSE}, so \in BOOLEAN}
    \cup
    {[status |-> SynthStatus(1, TRUE, so), synth |-> TRUE, k |-> 1, so |-> so] :
        so \in BOOLEAN}

\* Statuses outside the synthesized family.
OtherStatuses ==
    {"", "Final/SO/OT", "Final/Shootout", "Final - shootout", "Final/0OT",
     "Final/OT2", "Postponed", "In Progress", "SOLD OUT", "Final/2OT/3OT",
     "Unofficial Final/OT", "ot", "Final/so", "Final/OT/SHOOTOUT"}

OtherArgs ==
    {[status |-> s, synth |-> FALSE, k |-> 0, so |-> FALSE] : s \in OtherStatuses}

\* ret maps the name of each function applied so far to what it returned.
NothingCalled == [f \in {} |-> FALSE]

Called(f) == f \in DOMAIN ret

\* Optional[GameInfo]: None, or a GameInfo with none |-> FALSE.
NoGameInfo == [none |-> TRUE]

\* No table of games.db has a row: games_extended, goals, penalties and
\* officials are the tables of scrapper.py, games and unplayed_games those of
\* program.py.
EmptyDb ==
    [games_extended |-> <<>>, goals |-> <<>>, penalties |-> <<>>, officials |-> <<>>,
     games |-> <<>>, unplayed_games |-> {}]

\* No request made, nothing extracted, nothing written.
NoLocals == [url |-> "none", response |-> 0, game_info |-> NoGameInfo, written |-> FALSE]

\* No entry point is running: the helper functions touch neither the
\* database nor a loop.
NoPipeline ==
    /\ db = EmptyDb
    /\ loop = [i |-> 0, results |-> <<>>, game_id_base |-> 0]
    /\ locals = NoLocals

\* Apply function f to the argument: record its return value v.
Return(f, v) ==
    /\ ~Called(f)
    /\ ret' = (f :> v) @@ ret
    /\ UNCHANGED <<arg, db, loop, locals>>

InitStatus ==
    /\ arg \in SynthArgs \cup OtherArgs
    /\ ret = NothingCalled
    /\ NoPipeline

CallDetectOvertimePeriods ==
    Return("overtime_periods", detect_overtime_periods(arg.status))

CallDetectShootout ==
    Return("decided_by_shootout", detect_shootout(arg.status))

CallDetermineGameFormat ==
    Return("game_format", determine_game_format(arg.status))

NextStatus ==
    \/ CallDetectOvertimePeriods
    \/ CallDetectShootout
    \/ CallDetermineGameFormat

SpecStatus == InitStatus /\ [][NextStatus]_vars

AllCalled ==
    /\ Called("overtime_periods")
    /\ Called("decided_by_shootout")
    /\ Called("game_format")

\* C1: determine_game_format returns SHOOTOUT whenever detect_shootout is
\* true, otherwise OVERTIME whenever detect_overtime_periods > 0, otherwise
\* REGULATION; "Final/2OT" gives overtime, 2 periods, no shootout, and
\* "Final/OT/SO" gives shootout with the shootout flag set.
C1_FormatFollowsRule ==
    AllCalled =>
        /\ ret.game_format =
              IF ret.decided_by_shootout = TRUE THEN SHOOTOUT
              ELSE IF ret.overtime_periods > 0 THEN OVERTIME
              ELSE REGULATION
        /\ arg.status = "Final/2OT" =>
              /\ ret.game_format = OVERTIME
              /\ ret.overtime_periods = 2
              /\ ret.decided_by_shootout = FALSE
        /\ arg.status = "Final/OT/SO" =>
              /\ ret.game_format = SHOOTOUT
              /\ ret.decided_by_shootout = TRUE

C1_Witness ==
    /\ AllCalled
    /\ arg.status = "Final/OT/SO"
    /\ ret.game_format = SHOOTOUT
    /\ ret.overtime_periods = 1

\* C2: for a status "Final" + optional "/<k>OT" (bare "/OT" is k = 1) +
\* optional "/SO", detect_overtime_periods returns k (0 without the OT part)
\* and detect_shootout is true exactly when "/SO" was appended.
C2_StatusRoundTrip ==
    arg.synth =>
        /\ Called("overtime_periods") => ret.overtime_periods = arg.k
        /\ Called("decided_by_shootout") => ret.decided_by_shootout = arg.so

C2_Witness ==
    /\ arg.synth
    /\ arg.k = MaxOT
    /\ arg.so
    /\ Called("overtime_periods") /\ ret.overtime_periods = MaxOT
    /\ Called("decided_by_shootout") /\ ret.decided_by_shootout = TRUE

\* ------------------------------------------------- header line helpers

\* What a call gives: a returned value, or the exception it raised.
Returned(v) == [raised |-> "", value |-> v]

Raised(e) == [raised |-> e, value |-> ""]


\* The leftmost position where " at " or " - " occurs in s, 0 when neither does.
NextSeparator(s) ==
    LET Leftmost(at, dash) ==
            IF at = 0 THEN dash
            ELSE IF dash = 0 THEN at
            ELSE IF at < dash THEN at ELSE dash
    IN  Leftmost(Find(s, " at ", 1), Find(s, " - ", 1))

\* re.split(" at | - ", s)
RECURSIVE SplitAtOrDash(_)
SplitAtOrDash(s) ==
    LET CutAt(p) ==
            IF p = 0 THEN <<s>>
            ELSE <<SubSeq(s, 1, p - 1)>>
                    \o SplitAtOrDash(Suffix(s, p + (IF StartsWithAt(s, " at ", p)
                                                    THEN 4 ELSE 3)))
    IN  CutAt(NextSeparator(s))

\* re.search(r"\d+", s).span(), 1-based and end-exclusive; <<0, 0>> stands
\* for no match (the code then fails on None.span()).
SearchDigitRun(s) ==
    LET Span(starts) ==
            IF starts = {} THEN <<0, 0>>
            ELSE <<Min(starts), RunEnd(s, Min(starts), Digits)>>
    IN  Span({i \in 1..Len(s) : SubSeq(s, i, i) \in Digits})

\* As TeamPartIndex, with both sides reading the first element.
TeamPartIndexAlwaysFirst(home_or_away) == 1

\* The element of re.split(" at | - ", game_details[0]) that get_team and
\* get_score read: index 1 for the home team, 0 for the away team.
TeamPartIndex(home_or_away) == IF home_or_away = "home" THEN 2 ELSE 1

get_team(game_details, home_or_away) ==
    LET Team(team_details, team_score_position) ==
            IF team_score_position = <<0, 0>> THEN Raised("AttributeError")
            ELSE Returned(Strip(SubSeq(team_details, 1, team_score_position[1] - 1)))
        TeamOf(team_details) == Team(team_details, SearchDigitRun(team_details))
        TeamIn(parts, k) ==
            IF Len(parts) < k THEN Raised("IndexError") ELSE TeamOf(parts[k])
    IN  IF game_details = <<>> THEN Raised("IndexError")
        ELSE TeamIn(SplitAtOrDash(game_details[1]), TeamPartIndex(home_or_away))

get_away_team(game_details) == get_team(game_details, "away")

get_home_team(game_details) == get_team(game_details, "home")

get_score(game_details, home_or_away) ==
    LET Score(team_details, team_score_position) ==
            IF team_score_position = <<0, 0>> THEN Raised("AttributeError")
            ELSE Returned(SubSeq(team_details, team_score_position[1],
                                 team_score_position[2] - 1))
        ScoreOf(team_details) == Score(team_details, SearchDigitRun(team_details))
        ScoreIn(parts, k) ==
            IF Len(parts) < k THEN Raised("IndexError") ELSE ScoreOf(parts[k])
    IN  IF game_details = <<>> THEN Raised("IndexError")
        ELSE ScoreIn(SplitAtOrDash(game_details[1]), TeamPartIndex(home_or_away))

get_away_team_score(game_details) == get_score(game_details, "away")

get_home_team_score(game_details) == get_score(game_details, "home")

get_game_status(game_details) ==
    LET StatusIn(parts) ==
            IF Len(parts) < 3 THEN Raised("IndexError")
            ELSE Returned(Replace(parts[3], "Status: ", ""))
    IN  IF game_details = <<>> THEN Raised("IndexError")
        ELSE StatusIn(SplitAtOrDash(game_details[1]))

\* ------------------------------------------- the header helpers on their own

\* "<TeamA> <scoreA> at <TeamB> <scoreB> - Status: <s>"
HeaderLine(teamA, scoreA, teamB, scoreB, s) ==
    teamA \o " " \o scoreA \o " at " \o teamB \o " " \o scoreB \o " - Status: " \o s

AwayNames ==
    {"Rochester", "San Diego", "Team 7 Stars", "Bat at Home", "Up - Down",
     "Bob at", " Padded", "St. John's", "67s", ""}

HomeNames ==
    {"Toronto", "Lehigh Valley", "Wilkes-Barre/Scranton", "H2O", "at Large",
     "Trailing ", "Far - Out", "9ers"}

Scores == {"0", "7", "10"}

HeaderStatuses ==
    {"Final", "Final/OT/SO", "Final - Forfeit", "Status: Final", "Look at Me",
     "- Final", "word", ""}

HeaderArgs ==
    {[away_team |-> a, away_score |-> x, home_team |-> h, home_score |-> y,
      game_status |-> s, game_details |-> <<HeaderLine(a, x, h, y, s)>>] :
        a \in AwayNames, x \in Scores, h \in HomeNames, y \in Scores,
        s \in HeaderStatuses}

\* Apply one function to the argument.
ReturnOnly(f, v) ==
    /\ ret = NothingCalled
    /\ ret' = (f :> v)
    /\ UNCHANGED <<arg, db, loop, locals>>

InitHeader ==
    /\ arg \in HeaderArgs
    /\ ret = NothingCalled
    /\ NoPipeline

CallGetAwayTeam == ReturnOnly("get_away_team", get_away_team(arg.game_details))

CallGetHomeTeam == ReturnOnly("get_home_team", get_home_team(arg.game_details))

CallGetAwayTeamScore ==
    ReturnOnly("get_away_team_score", get_away_team_score(arg.game_details))

CallGetHomeTeamScore ==
    ReturnOnly("get_home_team_score", get_home_team_score(arg.game_details))

CallGetGameStatus == ReturnOnly("get_game_status", get_game_status(arg.game_details))

NextHeader ==
    \/ CallGetAwayTeam
    \/ CallGetHomeTeam
    \/ CallGetAwayTeamScore
    \/ CallGetHomeTeamScore
    \/ CallGetGameStatus

SpecHeader == InitHeader /\ [][NextHeader]_vars

\* The five helpers give back the parts the header was built from.
HeaderDecomposed ==
    /\ Called("get_away_team") => ret.get_away_team = Returned(arg.away_team)
    /\ Called("get_home_team") => ret.get_home_team = Returned(arg.home_team)
    /\ Called("get_away_team_score") =>
          ret.get_away_team_score = Returned(arg.away_score)
    /\ Called("get_home_team_score") =>
          ret.get_home_team_score = Returned(arg.home_score)
    /\ Called("get_game_status") => ret.get_game_status = Returned(arg.game_status)

NoLeadingDigit(team) == ~(CharAt(team, 1) \in Digits)

\* A team name the header can be cut around: no digit anywhere, no " at " or
\* " - " in it or formed with the space that follows it, no surrounding
\* whitespace.
PlainTeam(team) ==
    /\ \A i \in 1..Len(team) : ~(SubSeq(team, i, i) \in Digits)
    /\ NextSeparator(team \o " ") = 0
    /\ Strip(team) = team

\* A status the header can be cut around: no " at " or " - " in it or formed
\* with the space before it, and no "Status: " in it.
PlainStatus(s) ==
    /\ NextSeparator(" " \o s) = 0
    /\ ~Contains(s, "Status: ")

\* C10 as stated: whenever the team names have no leading digit, the helpers
\* return TeamA, TeamB, scoreA, scoreB and the status exactly.
C10_AsStated ==
    (NoLeadingDigit(arg.away_team) /\ NoLeadingDigit(arg.home_team))
        => HeaderDecomposed

\* C10, amended: whenever the team names hold no digit at all, no " at " or
\* " - " separator (also none formed with the following space) and no
\* surrounding whitespace, and the status holds no separator (also none
\* formed with the preceding space) and no "Status: ", the helpers return
\* TeamA, TeamB, scoreA, scoreB and the status exactly.
C10_HeaderDecomposition ==
    (PlainTeam(arg.away_team) /\ PlainTeam(arg.home_team) /\ PlainStatus(arg.game_status))
        => HeaderDecomposed

C10_Witness ==
    /\ arg.away_team = "San Diego"
    /\ arg.home_team = "Wilkes-Barre/Scranton"
    /\ arg.home_score = "10"
    /\ arg.game_status = "Final/OT/SO"
    /\ Called("get_home_team")
    /\ ret.get_home_team = Returned("Wilkes-Barre/Scranton")

\* ------------------------------------------------------ get_game_details

NOT_AVAILABLE == "This game is not available."

NO_SUCH_GAME == "{\"error\": \"No such game\"}"

\* As NonEmptyItems, with the test for the empty item left out.
AllItems(page_details) == page_details

\* The items of page_details that are not empty, in order.
NonEmptyItems(page_details) == SelectSeq(page_details, LAMBDA item : item # "")

\* The loop of get_game_details from line k of lines on: a line that is empty
\* once stripped raises IndexError on line_item[0] and is passed over, as is
\* one that starts with "<" or "("; the first other line is split on
\* "<br />" and returned. Running off the end returns None.
RECURSIVE GameDetailsFrom(_, _)
GameDetailsFrom(lines, k) ==
    LET Line(line_item, start_item) ==
            IF line_item # "" /\ start_item # "<" /\ start_item # "("
            THEN [none |-> FALSE,
                  items |-> NonEmptyItems(Split(line_item, "<br />"))]
            ELSE GameDetailsFrom(lines, k + 1)
        LineItem(line_item) == Line(line_item, CharAt(line_item, 1))
    IN  IF k > Len(lines) THEN [none |-> TRUE, items |-> <<>>]
        ELSE LineItem(Strip(lines[k]))

get_game_details(text) == GameDetailsFrom(Split(text, "\n"), 1)

\* ---------------------------------------- get_game_details on its own

\* Markup and blank lines that precede the report line in a response body.
HeadLines ==
    <<"<html>", "", "<head>", "    <title>Official statistics</title>", "</head>",
      "", "<body>", "", "    <br clear=\"all\">">>

TailLines == <<"</body>", "", "</html>">>

\* Fragment lists a report line is joined from; "" stands for a doubled
\* "<br />".
FragmentLists ==
    {<<"Rochester 7 at Toronto 4 - Status: Final", "Saturday, May 13, 2023 - Arena",
       "", "Rochester 1 4 2 - 7", "Toronto 0 2 2 - 4", "", "A-6,212">>,
     <<"Rochester 7 at Toronto 4 - Status: Final">>,
     <<"A 1 at B 2 - Status: Final/OT", "", "", "x", "">>,
     <<"first", "(second)", "<b>third</b>", "fourth">>}

\* How many of HeadLines precede the report line, whether a line starting
\* with "(" precedes it too, how far it is indented, and whether TailLines
\* follow it.
BodyShapes ==
    [head : 0..Len(HeadLines), paren : BOOLEAN, indent : {"", "    "},
     tail : BOOLEAN]

Body(shape, line) ==
    Join(SubSeq(HeadLines, 1, shape.head)
            \o (IF shape.paren THEN <<"(c) LeagueStat">> ELSE <<>>)
            \o (IF line = None THEN <<>> ELSE <<shape.indent \o line>>)
            \o (IF shape.tail THEN TailLines ELSE <<>>),
         "\n")

DetailsArgs ==
    {[kind |-> "not_available", expected |-> <<NOT_AVAILABLE>>,
      text |-> Body(sh, NOT_AVAILABLE)] : sh \in BodyShapes}
    \cup
    {[kind |-> "no_such_game", expected |-> <<NO_SUCH_GAME>>,
      text |-> Body(sh, NO_SUCH_GAME)] : sh \in BodyShapes}
    \cup
    {[kind |-> "playable", expected |-> SelectSeq(fr, LAMBDA f : f # ""),
      text |-> Body(sh, Join(fr, "<br />"))] : sh \in BodyShapes, fr \in FragmentLists}
    \cup
    {[kind |-> "markup_only", expected |-> <<>>, text |-> Body(sh, None)] :
        sh \in BodyShapes}

InitDetails ==
    /\ arg \in DetailsArgs
    /\ ret = NothingCalled
    /\ NoPipeline

CallGetGameDetails == ReturnOnly("get_game_details", get_game_details(arg.text))

NextDetails == CallGetGameDetails

SpecDetails == InitDetails /\ [][NextDetails]_vars

\* C7: a body whose first non-markup line is "This game is not available."
\* gives exactly that one item, one whose first non-markup line is
\* {"error": "No such game"} gives exactly that one item, and a playable body
\* gives the non-empty fragments of its report line, in order.
C7_GameDetailsClassified ==
    (Called("get_game_details") /\ arg.kind # "markup_only") =>
        /\ ~ret.get_game_details.none
        /\ ret.get_game_details.items = arg.expected
        /\ arg.kind = "not_available" =>
              ret.get_game_details.items = <<"This game is not available.">>
        /\ arg.kind = "no_such_game" =>
              ret.get_game_details.items = <<"{\"error\": \"No such game\"}">>

C7_Witness ==
    /\ Called("get_game_details")
    /\ arg.kind = "playable"
    /\ Len(ret.get_game_details.items) = 5
    /\ ret.get_game_details.items[5] = "A-6,212"

\* ------------------------------------------------ line-report extractor

\* game_details[-k] exists.
HasFromEnd(game_details, k) == Len(game_details) >= k

\* game_details[-k]
FromEnd(game_details, k) == game_details[Len(game_details) - k + 1]

WeekdayNames ==
    {"monday", "tuesday", "wednesday", "thursday", "friday", "saturday", "sunday"}

MonthNames ==
    <<"january", "february", "march", "april", "may", "june", "july", "august",
      "september", "october", "november", "december">>

\* The abbreviated month names of %b.
MonthAbbreviations ==
    <<"jan", "feb", "mar", "apr", "may", "jun", "jul", "aug", "sep", "oct",
      "nov", "dec">>

DaysInMonth(year, month) ==
    IF month = 2
    THEN (IF year % 4 = 0 /\ (year % 100 # 0 \/ year % 400 = 0) THEN 29 ELSE 28)
    ELSE IF month \in {4, 6, 9, 11} THEN 30 ELSE 31

\* s continues at position i with name (lower case), whatever the case of s.
LowerStartsWithAt(s, name, i) ==
    /\ i >= 1
    /\ i + Len(name) - 1 <= Len(s)
    /\ Lower(SubSeq(s, i, i + Len(name) - 1)) = name

\* The longest of names (lower case) that s continues with at position i,
\* as an index into names, 0 when none does: the alternation of a strptime
\* directive, which lists longer names first.
NameAt(s, i, names) ==
    LET Longest(hits) ==
            IF hits = {} THEN 0
            ELSE CHOOSE k \in hits : \A j \in hits : Len(names[j]) <= Len(names[k])
    IN  Longest({k \in 1..Len(names) : LowerStartsWithAt(s, names[k], i)})

\* One or more whitespace characters at position p: the position after
\* them, 0 when there is none.
Blanks(s, p) ==
    LET After(e) == IF e > p THEN e ELSE 0
    IN  After(RunEnd(s, p, SpaceChars))

\* n as text of at least two digits.
TwoDigits(n) == IF n < 10 THEN "0" \o PyStr(n) ELSE PyStr(n)

\* n as text of at least four digits.
FourDigits(n) ==
    IF n < 10 THEN "000" \o PyStr(n)
    ELSE IF n < 100 THEN "00" \o PyStr(n)
    ELSE IF n < 1000 THEN "0" \o PyStr(n)
    ELSE PyStr(n)

\* str(datetime.strptime(s, fmt)) for the formats "<names>, <months> %d, %Y"
\* ("%A, %B %d, %Y") and "<months> %d, %Y" ("%b %d, %Y", "%B %d, %Y"), or
\* ValueError: the names are matched without regard to case, each blank of
\* the format stands for one or more whitespace characters, the day is 1..31
\* written with one or two digits, the year four digits, nothing may follow,
\* and the day must exist in the month.
StrpTime(s, weekdays, months) ==
    LET Date(year, month, day) ==
            IF year = 0 \/ day > DaysInMonth(year, month) THEN "ValueError"
            ELSE FourDigits(year) \o "-" \o TwoDigits(month) \o "-"
                    \o TwoDigits(day) \o " 00:00:00"
        \* %Y at p, and the end of s
        Year(p, month, day) ==
            IF p > 0 /\ p + 3 = Len(s) /\ IsDigits(SubSeq(s, p, p + 3))
            THEN Date(DigitsValue(SubSeq(s, p, p + 3)), month, day)
            ELSE "ValueError"
        \* %d from p up to e, and ","
        Day(p, e, month) ==
            IF /\ e - p \in {1, 2}
               /\ DigitsValue(SubSeq(s, p, e - 1)) \in 1..31
               /\ CharAt(s, e) = ","
            THEN Year(Blanks(s, e + 1), month, DigitsValue(SubSeq(s, p, e - 1)))
            ELSE "ValueError"
        DayAt(p, month) ==
            IF p = 0 THEN "ValueError" ELSE Day(p, RunEnd(s, p, Digits), month)
        Month(p, month) ==
            IF month = 0 THEN "ValueError"
            ELSE DayAt(Blanks(s, p + Len(months[month])), month)
        MonthAt(p) == IF p = 0 THEN "ValueError" ELSE Month(p, NameAt(s, p, months))
        \* the weekday name that ends before one of wd, and ","
        Weekday(wd) ==
            IF wd = {} \/ CharAt(s, Max(wd)) # "," THEN "ValueError"
            ELSE MonthAt(Blanks(s, Max(wd) + 1))
    IN  IF weekdays = {} THEN MonthAt(1)
        ELSE Weekday({Len(w) + 1 : w \in {w \in weekdays : LowerStartsWithAt(s, w, 1)}})

\* str(get_date(game_details)), or the exception get_date raises.
get_date(game_details) ==
    IF Len(game_details) < 2 THEN "IndexError"
    ELSE StrpTime(Split(game_details[2], " - ")[1], WeekdayNames, MonthNames)

\* The text get_attendance hands to int().
AttendanceText(game_details) ==
    Replace(Replace(FromEnd(game_details, 3), "A-", ""), ",", "")

\* get_attendance where game_details[-3] exists: 0 on ValueError.
get_attendance(game_details) ==
    IF IntRaises(AttendanceText(game_details)) THEN 0
    ELSE PyInt(AttendanceText(game_details))

\* The pieces of game_details[-6] between the full stops.
ShotsParts(game_details) ==
    Split(Replace(FromEnd(game_details, 6), "Shots on Goal-", ""), ".")

\* get_shots_on_goal raises IndexError.
ShotsRaises(game_details, home_or_away) ==
    \/ ~HasFromEnd(game_details, 6)
    \/ home_or_away = "home" /\ Len(ShotsParts(game_details)) < 2

\* get_shots_on_goal where it does not raise: the text after the last "-"
\* of the team's piece.
get_shots_on_goal(game_details, home_or_away) ==
    LET shots == ShotsParts(game_details)
        team_details == Split(shots[IF home_or_away = "home" THEN 2 ELSE 1], "-")
    IN  team_details[Len(team_details)]

\* s.rstrip(".")
RECURSIVE RStripDots(_)
RStripDots(s) ==
    IF s # "" /\ SubSeq(s, Len(s), Len(s)) = "." THEN RStripDots(SubSeq(s, 1, Len(s) - 1))
    ELSE s

\* re.match(r"^(.+?)\s+\((\d+)\)$", entry) on a stripped entry: the entry
\* ends with "(digits)", whitespace comes before that and at least one
\* character before the whitespace; <<>> when it does not match, else the
\* official.
OfficialOf(entry) ==
    LET n == Len(entry)
        Official(open, blank) ==
            IF /\ n >= 1 /\ SubSeq(entry, n, n) = ")"
               /\ open >= 1 /\ open < n - 1 /\ SubSeq(entry, open, open) = "("
               /\ blank < open - 1
               /\ blank >= 1
               /\ ~Contains(SubSeq(entry, 1, blank), "\n")
            THEN <<[name |-> Strip(SubSeq(entry, 1, blank)),
                    number |-> DigitsValue(SubSeq(entry, open + 1, n - 1))]>>
            ELSE <<>>
        NumberFrom(open) == Official(open, RunStart(entry, open - 1, SpaceChars))
    IN  NumberFrom(RunStart(entry, n - 1, Digits))

RECURSIVE OfficialsOf(_)
OfficialsOf(entries) ==
    IF entries = <<>> THEN <<>>
    ELSE OfficialOf(Strip(entries[1])) \o OfficialsOf(Tail(entries))

parse_officials(detail_line) ==
    IF ~Contains(detail_line, "-") THEN <<>>
    ELSE OfficialsOf(Split(RStripDots(Strip(Split1(detail_line, "-")[2])), ","))

\* A literal of a pattern at position i of s: the position after it, 0 when
\* it is not there or the pattern already failed (i = 0).
Lit(s, i, lit) == IF i > 0 /\ StartsWithAt(s, lit, i) THEN i + Len(lit) ELSE 0

\* A greedy C+ at position i: the position after the run, 0 when the run is
\* empty or the pattern already failed. None of the patterns below continues
\* with a character of the class it has just repeated, so giving characters
\* back never helps and the longest run is the only candidate.
Plus(s, i, C) ==
    LET After(e) == IF e > i THEN e ELSE 0
    IN  IF i > 0 THEN After(RunEnd(s, i, C)) ELSE 0

\* [^)]* then ")" at position i: the position of the first ")" from i on,
\* 0 when there is none or the pattern already failed.
ToClose(s, i) == IF i > 0 THEN Find(s, ")", i) ELSE 0

\* (?:\([^)]*\))* at position i: the position after the last "(...)" group
\* of the run that starts at i.
RECURSIVE FlagsEnd(_, _)
FlagsEnd(s, i) ==
    LET Group(close) == IF close > 0 THEN FlagsEnd(s, close + 1) ELSE i
    IN  IF CharAt(s, i) = "(" THEN Group(Find(s, ")", i)) ELSE i

\* a.strip() for each piece of assists_str.split(","), the empty ones dropped.
RECURSIVE StripAll(_)
StripAll(pieces) ==
    LET Kept(a) == IF a = "" THEN <<>> ELSE <<a>>
    IN  IF pieces = <<>> THEN <<>>
        ELSE Kept(Strip(pieces[1])) \o StripAll(Tail(pieces))

\* A match under way: at is the position it has reached (0 once it has
\* failed), groups the start and the position after the end of each group
\* matched so far.
MatchFrom(i) == [at |-> i, groups |-> <<>>]

\* The match m goes on to position e without a group.
SkipTo(m, e) == [m EXCEPT !.at = e]

\* The match m goes on to position e, the text passed being group name.
GroupTo(m, name, e) == [at |-> e, groups |-> (name :> <<m.at, e>>) @@ m.groups]

SkipLit(s, m, lit) == SkipTo(m, Lit(s, m.at, lit))

SkipPlus(s, m, C) == SkipTo(m, Plus(s, m.at, C))

GroupPlus(s, m, name, C) == GroupTo(m, name, Plus(s, m.at, C))

\* The text of group name of the match m of s.
GroupText(s, m, name) == SubSeq(s, m.groups[name][1], m.groups[name][2] - 1)

\* goal_pattern matched at position i of goals_section:
\* (\d+),\s+(\w+),\s+(\w+)\s+(\d+)\s+\(([^)]*)\),\s+(\d+:\d+)\s*((?:\([^)]*\))*)
\* end is the position after the match, 0 when there is no match at i.
GoalMatch(s, i, period) ==
    LET m1 == GroupPlus(s, MatchFrom(i), "goal_number", Digits)
        m2 == GroupPlus(s, SkipPlus(s, SkipLit(s, m1, ","), SpaceChars), "team", WordChars)
        m3 == GroupPlus(s, SkipPlus(s, SkipLit(s, m2, ","), SpaceChars), "player_name",
                        WordChars)
        m4 == GroupPlus(s, SkipPlus(s, m3, SpaceChars), "player_number", Digits)
        Assists(m) == GroupTo(m, "assists", ToClose(s, m.at))
        m5 == Assists(SkipLit(s, SkipPlus(s, m4, SpaceChars), "("))
        Time(m) == GroupTo(m, "time", Plus(s, Lit(s, Plus(s, m.at, Digits), ":"), Digits))
        m6 == Time(SkipPlus(s, SkipLit(s, SkipLit(s, m5, ")"), ","), SpaceChars))
        Flags(m) == GroupTo(m, "flags", FlagsEnd(s, m.at))
        Goal(m) ==
            [end |-> m.at,
             goal |-> [goal_number |-> DigitsValue(GroupText(s, m, "goal_number")),
                       team |-> GroupText(s, m, "team"),
                       player_name |-> GroupText(s, m, "player_name"),
                       player_number |-> DigitsValue(GroupText(s, m, "player_number")),
                       assists |-> StripAll(Split(GroupText(s, m, "assists"), ",")),
                       time |-> GroupText(s, m, "time"),
                       period |-> period,
                       power_play |-> Contains(GroupText(s, m, "flags"), "(PP)"),
                       empty_net |-> Contains(GroupText(s, m, "flags"), "(EN)"),
                       short_handed |-> Contains(GroupText(s, m, "flags"), "(SH)")]]
        Matched(m) ==
            IF m.at = 0 THEN [end |-> 0]
            ELSE Goal(Flags(SkipTo(m, RunEnd(s, m.at, SpaceChars))))
    IN  Matched(m6)

\* re.finditer(goal_pattern, goals_section) from position i on: the matches
\* left to right, the scan going on after each match.
RECURSIVE GoalsFrom(_, _, _)
GoalsFrom(s, i, period) ==
    LET Found(m) == <<m.goal>> \o GoalsFrom(s, m.end, period)
        Leftmost(starts) ==
            IF starts = {} THEN <<>> ELSE Found(GoalMatch(s, Min(starts), period))
    IN  Leftmost({j \in i..Len(s) : GoalMatch(s, j, period).end > 0})

parse_goals_from_section(goals_section, period) ==
    IF Strip(goals_section) = "" THEN <<>> ELSE GoalsFrom(goals_section, 1, period)

\* penalty_pattern matched at position i of the section:
\* (\w+)\s+(\w+)\s+\(([^)]+)\),\s+(\d+:\d+)
PenaltyMatch(s, i, period) ==
    LET m1 == GroupPlus(s, MatchFrom(i), "player_name", WordChars)
        m2 == GroupPlus(s, SkipPlus(s, m1, SpaceChars), "team", WordChars)
        \* [^)]+ and ")" after it
        NotEmpty(m, close) == GroupTo(m, "penalty_type", IF close > m.at THEN close ELSE 0)
        Type(m) == NotEmpty(m, ToClose(s, m.at))
        m3 == Type(SkipLit(s, SkipPlus(s, m2, SpaceChars), "("))
        Time(m) == GroupTo(m, "time", Plus(s, Lit(s, Plus(s, m.at, Digits), ":"), Digits))
        m4 == Time(SkipPlus(s, SkipLit(s, SkipLit(s, m3, ")"), ","), SpaceChars))
        Matched(m) ==
            IF m.at = 0 THEN [end |-> 0]
            ELSE [end |-> m.at,
                  penalty |-> [player_name |-> GroupText(s, m, "player_name"),
                               team |-> GroupText(s, m, "team"),
                               penalty_type |-> GroupText(s, m, "penalty_type"),
                               time |-> GroupText(s, m, "time"),
                               period |-> period,
                               duration_minutes |-> 2]]
    IN  Matched(m4)

RECURSIVE PenaltiesFrom(_, _, _)
PenaltiesFrom(s, i, period) ==
    LET Found(m) == <<m.penalty>> \o PenaltiesFrom(s, m.end, period)
        Leftmost(starts) ==
            IF starts = {} THEN <<>> ELSE Found(PenaltyMatch(s, Min(starts), period))
    IN  Leftmost({j \in i..Len(s) : PenaltyMatch(s, j, period).end > 0})

parse_penalties_from_section(penalties_section, period) ==
    IF Strip(penalties_section) = "" THEN <<>>
    ELSE PenaltiesFrom(Split(penalties_section, ".")[1], 1, period)

\* The period a detail line sets: the <n> of "<n>st|nd|rd|th" followed by
\* whitespace and "Period" at the start of the stripped line, or the <n> of
\* a text before "Period-" that is exactly "<n>st|nd|rd|th"; current when
\* the line gives neither.
OrdinalEnd(s) ==
    LET Last(hits) == IF hits = {} THEN 0 ELSE Max(hits)
        Suffixed(d) ==
            Last({e \in {Lit(s, d, suffix) : suffix \in {"st", "nd", "rd", "th"}} : e > 0})
    IN  Suffixed(Plus(s, 1, Digits))

PeriodOfLine(detail, current) ==
    LET Number(s) == DigitsValue(SubSeq(s, 1, RunEnd(s, 1, Digits) - 1))
        first == Lit(detail, Plus(detail, OrdinalEnd(detail), SpaceChars), "Period") > 0
        Ordinal(period_str, e) ==
            IF e > 0 /\ Suffix(period_str, e) \in {"", "\n"} THEN Number(period_str)
            ELSE IF first THEN Number(detail)
            ELSE current
        Before(period_str) == Ordinal(period_str, OrdinalEnd(period_str))
    IN  IF Contains(detail, "Period-") THEN Before(Split1(detail, "Period-")[1])
        ELSE IF first THEN Number(detail)
        ELSE current

\* The loop of parse_goals_and_penalties_from_periods from line k on, period
\* being the period the lines before k left behind.
RECURSIVE PeriodsFrom(_, _, _)

\* As PeriodSections, with the goals and penalties of the later lines put
\* first.
PeriodSectionsLaterFirst(sections, now, later) ==
    [goals |-> later.goals \o parse_goals_from_section(sections[1], now),
     penalties |->
        later.penalties
            \o parse_penalties_from_section(IF Len(sections) = 2 THEN sections[2] ELSE "",
                                            now)]

\* The goals and penalties of a "Period-" line, sections being its text
\* after "Period-" split at "Penalties-", put before those of the later
\* lines.
PeriodSections(sections, now, later) ==
    [goals |-> parse_goals_from_section(sections[1], now) \o later.goals,
     penalties |->
        parse_penalties_from_section(IF Len(sections) = 2 THEN sections[2] ELSE "", now)
            \o later.penalties]

\* One pass of the loop: the stripped line k, now being the period in force
\* after the line has been read.
PeriodLine(game_details, k, detail, now) ==
    IF ~Contains(detail, "Period-") THEN PeriodsFrom(game_details, k + 1, now)
    ELSE PeriodSections(Split1(Split1(detail, "Period-")[2], "Penalties-"), now,
                        PeriodsFrom(game_details, k + 1, now))

PeriodDetail(game_details, k, detail, period) ==
    PeriodLine(game_details, k, detail, PeriodOfLine(detail, period))

PeriodsFrom(game_details, k, period) ==
    IF k > Len(game_details) THEN [goals |-> <<>>, penalties |-> <<>>]
    ELSE PeriodDetail(game_details, k, Strip(game_details[k]), period)

parse_goals_and_penalties_from_periods(game_details) == PeriodsFrom(game_details, 1, 0)

\* ------------------------------------------ the period lines on their own
\* Period lines are written from lists of goal entries and penalty entries
\* in the grammar of the reports: the goal entries end with a full stop each,
\* the penalty entries are set apart by "; ".

Ordinals == <<"1st", "2nd", "3rd", "4th">>

GoalsSection(goal_entries) ==
    IF goal_entries = <<>> THEN "No Scoring." ELSE Join(goal_entries, ". ") \o "."

PenaltiesSection(penalty_entries) ==
    IF penalty_entries = <<>> THEN "No Penalties." ELSE Join(penalty_entries, "; ") \o "."

\* "<label> Period-<goals> Penalties-<penalties>"
PeriodLineText(label, goal_entries, penalty_entries) ==
    label \o " Period-" \o GoalsSection(goal_entries)
        \o " Penalties-" \o PenaltiesSection(penalty_entries)

\* The period lines of the reference report (tests/parameters.py), with 1, 6
\* and 4 goals and 4, 3 and 4 penalties; "Niemela" is written without its
\* diaeresis, a letter of \w either way.
FixturePeriods ==
    <<[label |-> "1st",
       goals |-> <<"1, Rochester, Kulich 5 (Jobst, Prow), 9:57 (PP)">>,
       penalties |-> <<"Shaw Tor (tripping), 8:00", "Clifford Tor (roughing), 15:09",
                       "Bartkowski Roc (tripping), 17:30",
                       "Jobst Roc (cross-checking), 20:00">>],
      [label |-> "2nd",
       goals |-> <<"2, Toronto, Abruzzese 2 (Hollowell, Shaw), 1:20 (PP)",
                   "3, Rochester, Davies 1 (Malone, Pilut), 4:28",
                   "4, Rochester, Rousek 1 (Jobst), 5:58",
                   "5, Rochester, Malone 2 (Cecconi, Warren), 7:01",
                   "6, Rochester, Cecconi 1 (Cederqvist, Mersch), 7:13",
                   "7, Toronto, Ellis 1 (Niemela, Zohorna), 10:08 (PP)">>,
       penalties |-> <<"Hoefenmayer Tor (cross-checking), 2:25",
                       "Bartkowski Roc (hooking), 8:19", "Jobst Roc (roughing), 16:01">>],
      [label |-> "3rd",
       goals |-> <<"8, Toronto, Holmberg 3 (Abruzzese, Hollowell), 5:03 (PP)",
                   "9, Rochester, Mersch 5 (Malone, Rosen), 7:12 (PP)",
                   "10, Rochester, Warren 1 (Murray, Jobst), 16:15 (EN)",
                   "11, Toronto, Steeves 1 (Ellis, Zohorna), 18:22 (PP)">>,
       penalties |-> <<"Chyzowski Tor (interference), 2:14",
                       "served by Eliot Roc (bench minor - too many men), 4:43",
                       "Blandisi Tor (high-sticking), 5:43",
                       "Eliot Roc (boarding), 16:43">>]>>

\* The goal entries a period line of the other reports is written from:
\* none, one, two (the second unassisted), and one of a team whose name has
\* two words.
GoalEntryLists ==
    {<<>>,
     <<"1, Rochester, Kulich 5 (Jobst, Prow), 9:57 (PP)">>,
     <<"2, Toronto, Steeves 1 (Ellis, Zohorna), 18:22", "3, Toronto, Mersch 5 (), 19:02 (EN)">>,
     <<"4, San Diego, Warren 1 (Murray), 19:15">>}

PenaltyEntryLists ==
    {<<>>,
     <<"Shaw Tor (tripping), 8:00">>,
     <<"Jobst Roc (cross-checking), 20:00",
       "served by Eliot Roc (bench minor - too many men), 4:43",
       "Samuels-Thomas Roc (hooking), 16:01">>}

PeriodChoices == [goals : GoalEntryLists, penalties : PenaltyEntryLists]

\* The periods of a report of n periods, one choice for each, labelled in
\* the order of play.
Labelled(choices) ==
    [n \in 1..Len(choices) |->
        [label |-> Ordinals[n], goals |-> choices[n].goals,
         penalties |-> choices[n].penalties]]

\* An overtime period as the reports label it, after three periods.
OvertimePeriods ==
    {FixturePeriods \o <<[label |-> "OT", goals |-> goals, penalties |-> <<>>]>> :
        goals \in GoalEntryLists}

PeriodReports ==
    {FixturePeriods}
    \cup {Labelled(<<a>>) : a \in PeriodChoices}
    \cup {Labelled(<<a, b>>) : a \in PeriodChoices, b \in PeriodChoices}
    \cup OvertimePeriods

\* The detail lines of a report with the periods given.
PeriodGame(periods) ==
    <<"Rochester 7 at Toronto 4 - Status: Final",
      "Saturday, May 13, 2023 - Coca-Cola Coliseum",
      "Rochester 1 4 2 - 7", "Toronto 0 2 2 - 4">>
    \o [n \in 1..Len(periods) |->
          PeriodLineText(periods[n].label, periods[n].goals, periods[n].penalties)]
    \o <<"Shots on Goal-Rochester 8-14-9-31. Toronto 9-20-9-38.",
         "Power Play Opportunities-Rochester 2 / 5; Toronto 4 / 6.">>

PeriodArgs ==
    {[periods |-> periods, game_details |-> PeriodGame(periods)] :
        periods \in PeriodReports}

InitPeriods ==
    /\ arg \in PeriodArgs
    /\ ret = NothingCalled
    /\ NoPipeline

CallParseGoalsAndPenaltiesFromPeriods ==
    ReturnOnly("parse_goals_and_penalties_from_periods",
               parse_goals_and_penalties_from_periods(arg.game_details))

NextPeriods == CallParseGoalsAndPenaltiesFromPeriods

SpecPeriods == InitPeriods /\ [][NextPeriods]_vars

\* The number of entries the periods were written from.
RECURSIVE EntryCount(_, _)
EntryCount(periods, kind) ==
    IF periods = <<>> THEN 0
    ELSE Len(periods[1][kind]) + EntryCount(Tail(periods), kind)

\* C11 as stated: the goals parsed from a report are as many as the goal
\* entries its period lines were written from, the penalties as many as the
\* penalty entries; the reference report gives 11 and 11.
C11_AsStated ==
    Called("parse_goals_and_penalties_from_periods") =>
        /\ Len(ret.parse_goals_and_penalties_from_periods.goals)
              = EntryCount(arg.periods, "goals")
        /\ Len(ret.parse_goals_and_penalties_from_periods.penalties)
              = EntryCount(arg.periods, "penalties")
        /\ arg.periods = FixturePeriods =>
              /\ Len(ret.parse_goals_and_penalties_from_periods.goals) = 11
              /\ Len(ret.parse_goals_and_penalties_from_periods.penalties) = 11

\* The goals (or penalties) of the lines of game_details, each parsed as a
\* report of that one line, in line order.
RECURSIVE LineByLine(_, _)
LineByLine(game_details, kind) ==
    IF game_details = <<>> THEN <<>>
    ELSE parse_goals_and_penalties_from_periods(<<Head(game_details)>>)[kind]
            \o LineByLine(Tail(game_details), kind)

\* C23 as stated: the goals and penalties of a period line carry the period
\* of the label of that line (1st 1, 2nd 2, 3rd 3, 4th and an overtime label
\* a period after the third), whatever lines come before it: those of a
\* report are those of its lines, each parsed alone.
C23_AsStated ==
    Called("parse_goals_and_penalties_from_periods") =>
        LET OwnPeriod(label) ==
                CASE label = "1st" -> {1}
                  [] label = "2nd" -> {2}
                  [] label = "3rd" -> {3}
                  [] OTHER -> {period \in Nat : period >= 4}
            Tagged(records, label) ==
                \A k \in 1..Len(records) : records[k].period \in OwnPeriod(label)
            Line(period) ==
                <<PeriodLineText(period.label, period.goals, period.penalties)>>
        IN  /\ \A kind \in {"goals", "penalties"} :
                  ret.parse_goals_and_penalties_from_periods[kind]
                      = LineByLine(arg.game_details, kind)
            /\ \A n \in 1..Len(arg.periods) : \A kind \in {"goals", "penalties"} :
                  Tagged(parse_goals_and_penalties_from_periods(Line(arg.periods[n]))[kind],
                         arg.periods[n].label)

OfficialsLine(game_details, prefixes) ==
    LET Last(at) == IF at = {} THEN <<>> ELSE parse_officials(game_details[Max(at)])
    IN  Last({k \in 1..Len(game_details) :
                \E prefix \in prefixes : StartsWith(game_details[k], prefix)})

\* The outcome fields of extract_game_info, all three read from the status.
LineOutcome(game_status) ==
    [overtime_periods |-> detect_overtime_periods(game_status),
     decided_by_shootout |-> detect_shootout(game_status),
     game_format |-> determine_game_format(game_status)]

\* The exception the statements of the try block of extract_game_info raise
\* first, "" when none raises: the scores raise where the teams do, and the
\* parsers of the officials and of the period lines raise nothing.
ExtractException(game_details) ==
    IF get_away_team(game_details).raised # "" THEN get_away_team(game_details).raised
    ELSE IF get_home_team(game_details).raised # ""
    THEN get_home_team(game_details).raised
    ELSE IF Len(Split(game_details[1], " - Status: ")) < 2 THEN "IndexError"
    ELSE IF get_date(game_details) \in {"IndexError", "ValueError"}
    THEN get_date(game_details)
    ELSE IF ~HasFromEnd(game_details, 3) THEN "IndexError"
    ELSE IF ShotsRaises(game_details, "home") THEN "IndexError"
    ELSE IF IntRaises(get_shots_on_goal(game_details, "home")) THEN "ValueError"
    ELSE IF ShotsRaises(game_details, "away") THEN "IndexError"
    ELSE IF IntRaises(get_shots_on_goal(game_details, "away")) THEN "ValueError"
    ELSE ""

\* Some statement of the try block of extract_game_info raises.
ExtractRaises(game_details) == ExtractException(game_details) # ""

\* As CaughtByExtractGameInfo, for the clause "except IndexError".
CaughtIndexErrorOnly(exception) == exception = "IndexError"

\* except (IndexError, ValueError, AttributeError)
CaughtByExtractGameInfo(exception) ==
    exception \in {"IndexError", "ValueError", "AttributeError"}

\* A call that an exception has left instead of a return value.
Escaped(exception) == [none |-> TRUE, raised |-> exception]

Escapes(returned) == "raised" \in DOMAIN returned

\* What extract_game_info makes of the exception its try block raised: None
\* where the except clause catches it.
ExtractFailure(exception) ==
    IF CaughtByExtractGameInfo(exception) THEN NoGameInfo ELSE Escaped(exception)

\* The GameInfo extract_game_info returns when nothing has raised.
LineGameInfo(game_id, game_type, game_details, game_status, outcome, parsed) ==
    [none |-> FALSE,
     game_id |-> game_id,
     game_type |-> game_type,
     game_format |-> outcome.game_format,
     away_team |-> get_away_team(game_details).value,
     home_team |-> get_home_team(game_details).value,
     away_score |-> PyInt(get_away_team_score(game_details).value),
     home_score |-> PyInt(get_home_team_score(game_details).value),
     game_status |-> game_status,
     game_date |-> get_date(game_details),
     attendance |-> get_attendance(game_details),
     home_shots |-> PyInt(get_shots_on_goal(game_details, "home")),
     away_shots |-> PyInt(get_shots_on_goal(game_details, "away")),
     overtime_periods |-> outcome.overtime_periods,
     decided_by_shootout |-> outcome.decided_by_shootout,
     referees |-> OfficialsLine(game_details, {"Referees-"}),
     linespersons |-> OfficialsLine(game_details, {"Linesmen-", "Linesman-"}),
     goals |-> parsed.goals,
     penalties |-> parsed.penalties]

\* game_status = game_details[0].split(" - Status: ")[1]
LineStatus(game_details) == Split(game_details[1], " - Status: ")[2]

extract_game_info(game_id, game_type, game_details) ==
    IF ExtractRaises(game_details) THEN ExtractFailure(ExtractException(game_details))
    ELSE LineGameInfo(game_id, game_type, game_details, LineStatus(game_details),
                      LineOutcome(LineStatus(game_details)),
                      parse_goals_and_penalties_from_periods(game_details))

\* ----------------------------------------- official game report (HTML)
\* A document is what BeautifulSoup hands to the extractors:
\*   text   - soup.get_text()
\*   tables - soup.find_all("table"), each table the sequence of its rows
\*            (find_all("tr")), each row the sequence of the texts of its
\*            cells (find_all(["td", "th"])).

\* (\w+[\w\s]*?) at position i, followed by a remainder of the pattern that
\* matches at the positions where Rest holds: the position after the group,
\* 0 when there is no match. The group takes the word that starts at i and
\* then as few further characters as the remainder allows.
LazyNameEnd(s, i, Rest(_)) ==
    LET Shortest(ends) == IF ends = {} THEN 0 ELSE Min(ends)
    IN  IF i < 1 \/ CharAt(s, i) \notin WordChars THEN 0
        ELSE Shortest({e \in RunEnd(s, i, WordChars)..RunEnd(s, i, WordChars \cup SpaceChars) :
                         Rest(e)})

\* \s+at\s+ at position i: the position after it, 0 when it does not match.
AtAfter(s, i) == Plus(s, Lit(s, Plus(s, i, SpaceChars), "at"), SpaceChars)

\* \s+\d+ at position i: the position after it, 0 when it does not match.
DigitsAfter(s, i) == Plus(s, Plus(s, i, SpaceChars), Digits)

\* Gamesheet:\s*(\w+[\w\s]*?)\s+at\s+(\w+[\w\s]*?)\s*- at the occurrence p of
\* "Gamesheet:": the two groups stripped, found |-> FALSE when no match.
GamesheetMatch(s, p) ==
    LET HomeEnd(v) ==
            LazyNameEnd(s, v, LAMBDA e : CharAt(s, RunEnd(s, e, SpaceChars)) = "-")
        Teams(q, e1, v, e2) ==
            IF e1 = 0 THEN [found |-> FALSE]
            ELSE [found |-> TRUE,
                  away |-> Strip(SubSeq(s, q, e1 - 1)),
                  home |-> Strip(SubSeq(s, v, e2 - 1))]
        Home(q, e1, v) == Teams(q, e1, v, HomeEnd(v))
        Away(q, e1) == Home(q, e1, AtAfter(s, e1))
        From(q) == Away(q, LazyNameEnd(s, q, LAMBDA e : HomeEnd(AtAfter(s, e)) > 0))
    IN  From(RunEnd(s, p + Len("Gamesheet:"), SpaceChars))

\* (\w+[\w\s]*?)\s+(\d+)\s+at\s+(\w+[\w\s]*?)\s+(\d+) at position i: the
\* four groups, found |-> FALSE when no match.
ScoreLineMatch(s, i) ==
    LET HomeEnd(v) == LazyNameEnd(s, v, LAMBDA e : DigitsAfter(s, e) > 0)
        Line(e1, d1, v, e2, d2) ==
            IF e1 = 0 THEN [found |-> FALSE]
            ELSE [found |-> TRUE,
                  away |-> SubSeq(s, i, e1 - 1),
                  away_score |-> SubSeq(s, RunStart(s, d1 - 1, Digits) + 1, d1 - 1),
                  home |-> SubSeq(s, v, e2 - 1),
                  home_score |-> SubSeq(s, RunStart(s, d2 - 1, Digits) + 1, d2 - 1)]
        HomeScore(e1, d1, v, e2) == Line(e1, d1, v, e2, DigitsAfter(s, e2))
        Home(e1, d1, v) == HomeScore(e1, d1, v, HomeEnd(v))
        AwayScore(e1, d1) == Home(e1, d1, AtAfter(s, d1))
        Away(e1) == AwayScore(e1, DigitsAfter(s, e1))
    IN  Away(LazyNameEnd(s, i, LAMBDA e : HomeEnd(AtAfter(s, DigitsAfter(s, e))) > 0))

\* re.search of the score line pattern: the match at the leftmost position
\* that has one. A match that starts inside a run of word and whitespace
\* characters also starts at the first word character of that run, so only
\* those positions are tried.
ScoreLineHeads(s) ==
    {i \in 1..Len(s) :
        /\ CharAt(s, i) \in WordChars
        /\ CharAt(s, RunStart(s, i - 1, SpaceChars)) \notin WordChars}

ScoreLineSearch(s) ==
    IF \E i \in ScoreLineHeads(s) : ScoreLineMatch(s, i).found
    THEN ScoreLineMatch(s, Min({i \in ScoreLineHeads(s) : ScoreLineMatch(s, i).found}))
    ELSE [found |-> FALSE]

\* The teams of the first title that matches the title pattern.
TitleTeams(match) == [away |-> match.away, home |-> match.home]

\* The teams of the score line, None for both when no score line matches.
ScoreLineTeams(score_match) ==
    IF score_match.found
    THEN [away |-> Strip(score_match.away), home |-> Strip(score_match.home)]
    ELSE [away |-> None, home |-> None]

\* The positions of the "Gamesheet:" titles the title pattern matches at.
Gamesheets(all_text) ==
    {p \in Occurrences(all_text, "Gamesheet:") : GamesheetMatch(all_text, p).found}

extract_teams_from_html(all_text) ==
    IF Gamesheets(all_text) # {}
    THEN TitleTeams(GamesheetMatch(all_text, Min(Gamesheets(all_text))))
    ELSE ScoreLineTeams(ScoreLineSearch(all_text))

extract_scores_from_html(all_text) ==
    LET ScoresOf(match) ==
            IF match.found
            THEN [away |-> DigitsValue(match.away_score),
                  home |-> DigitsValue(match.home_score)]
            ELSE [away |-> 0, home |-> 0]
    IN  ScoresOf(ScoreLineSearch(all_text))

\* [A-Za-z\.\s\-] of parse_officials_from_text
OfficialNameChars == UpperCase \cup LowerCase \cup SpaceChars \cup {".", "-"}

\* \((\d+)\) at position i: the position after it, 0 when it does not match.
ParenNumberEnd(s, i) == Lit(s, Plus(s, Lit(s, i, "("), Digits), ")")

\* The matches of ([A-Za-z\.\s\-]+?)\s*\((\d+)\) in text from position pos
\* on, as officials. A match ends with a "(<digits>)" that directly follows
\* a run of name characters and starts where that run starts (or at pos);
\* a match whose name is blank is passed over.
RECURSIVE OfficialsFromText(_, _)
OfficialsFromText(text, pos) ==
    LET Official(name, number) ==
            IF name = "" THEN <<>> ELSE <<[name |-> name, number |-> number]>>
        Match(p, end) ==
            Official(Strip(SubSeq(text,
                                  Max({pos, RunStart(text, p - 1, OfficialNameChars) + 1}),
                                  p - 1)),
                     DigitsValue(SubSeq(text, p + 1, end - 2)))
                \o OfficialsFromText(text, end)
        At(p) == Match(p, ParenNumberEnd(text, p))
        Leftmost(opens) == IF opens = {} THEN <<>> ELSE At(Min(opens))
    IN  Leftmost({p \in (pos + 1)..Len(text) :
                    /\ CharAt(text, p - 1) \in OfficialNameChars
                    /\ ParenNumberEnd(text, p) > 0})

parse_officials_from_text(text) == OfficialsFromText(text, 1)

\* The group (.+?) of <label>\s*:(.+?)(?=\n|$), searched without regard to
\* case, None when there is no match: at least one character after the
\* colon, up to the next line break or the end of the text. With DOTALL the
\* first character may be a line break, without it not. optional_s is the
\* [s]? of the linespersons pattern.
LabelledLine(all_text, label, optional_s, dotall) ==
    LET AfterLabel(a) ==
            RunEnd(all_text,
                   IF optional_s /\ Lower(CharAt(all_text, a)) = "s" THEN a + 1 ELSE a,
                   SpaceChars)
        Colon(p) == AfterLabel(p + Len(label))
        ColonAt(c) ==
            /\ CharAt(all_text, c) = ":"
            /\ c < Len(all_text)
            /\ dotall \/ CharAt(all_text, c + 1) # "\n"
        Text(c, e) == SubSeq(all_text, c + 1, IF e = 0 THEN Len(all_text) ELSE e - 1)
        Line(c) == Text(c, Find(all_text, "\n", c + 2))
        First(at) == IF at = {} THEN None ELSE Line(Colon(Min(at)))
    IN  First({p \in 1..Len(all_text) :
                 LowerStartsWithAt(all_text, label, p) /\ ColonAt(Colon(p))})

\* re.sub(r"(?i)linesperson.*", "", ref_text) for a ref_text of one line
CutLinesperson(ref_text) ==
    LET Cut(at) == IF at = {} THEN ref_text ELSE SubSeq(ref_text, 1, Min(at) - 1)
    IN  Cut({p \in 1..Len(ref_text) : LowerStartsWithAt(ref_text, "linesperson", p)})

extract_officials_from_html(all_text) ==
    LET Referees(ref_match) ==
            IF ref_match = None THEN <<>>
            ELSE parse_officials_from_text(Strip(CutLinesperson(Strip(ref_match))))
        Linespersons(line_match) ==
            IF line_match = None THEN <<>>
            ELSE parse_officials_from_text(Strip(line_match))
    IN  [referees |-> Referees(LabelledLine(all_text, "referee", FALSE, TRUE)),
         linespersons |-> Linespersons(LabelledLine(all_text, "linesperson", TRUE, FALSE))]

\* As ScoringStatus, with every line after the first SCORING line scanned.
ScoringStatusWholeText(lines) ==
    LET Reads(j, texts) == Strip(lines[j]) \in texts
        Status(scanned) ==
            IF \E j \in scanned : Reads(j, {"SO", "SHOOTOUT"}) THEN "Final/SO"
            ELSE IF \E j \in scanned : Reads(j, {"OT"}) THEN "Final/OT"
            ELSE "Final"
        First(at) == IF at = {} THEN "Final" ELSE Status((Min(at) + 1)..Len(lines))
    IN  First({i \in 1..Len(lines) : Reads(i, {"SCORING"})})

\* The status extract_game_info_from_html builds from the lines after the
\* first SCORING line: the scan covers lines[i+1 .. min(i+10, len)-1] of the
\* 0-based list and stops at a "T" line.
ScoringStatus(lines) ==
    LET Reads(j, texts) == Strip(lines[j]) \in texts
        Status(scanned) ==
            IF \E j \in scanned : Reads(j, {"SO", "SHOOTOUT"}) THEN "Final/SO"
            ELSE IF \E j \in scanned : Reads(j, {"OT"}) THEN "Final/OT"
            ELSE "Final"
        UpTo(window, totals) ==
            Status(IF totals = {} THEN window ELSE {j \in window : j < Min(totals)})
        Window(window) == UpTo(window, {j \in window : Reads(j, {"T"})})
        After(i) == Window((i + 1)..Min({i + 9, Len(lines)}))
        First(at) == IF at = {} THEN "Final" ELSE After(Min(at))
    IN  First({i \in 1..Len(lines) : Reads(i, {"SCORING"})})

\* (\w+\s+\d{1,2},?\s+\d{4}) at the word that starts at i: the position after
\* the match, 0 when it does not match.
DateEnd(s, i) ==
    LET Year(y) == IF y > 0 /\ RunEnd(s, y, Digits) >= y + 4 THEN y + 4 ELSE 0
        Day(d, e) ==
            IF e - d \in {1, 2}
            THEN Year(Plus(s, IF CharAt(s, e) = "," THEN e + 1 ELSE e, SpaceChars))
            ELSE 0
        DayAt(d) == IF d = 0 THEN 0 ELSE Day(d, RunEnd(s, d, Digits))
    IN  DayAt(Plus(s, RunEnd(s, i, WordChars), SpaceChars))

\* info["date"] as str() shows it: the first text that looks like a date,
\* read as "%b %d, %Y" and, failing that, as "%B %d, %Y"; None when there is
\* no such text or neither format reads it. A match starts at the start of
\* a word.
LongDate(date) == IF date # "ValueError" THEN date ELSE "None"

ShortDate(date, date_match) ==
    IF date # "ValueError" THEN date
    ELSE LongDate(StrpTime(date_match, {}, MonthNames))

ReadDate(date_match) == ShortDate(StrpTime(date_match, {}, MonthAbbreviations), date_match)

FirstDate(all_text, starts) ==
    IF starts = {} THEN "None"
    ELSE ReadDate(SubSeq(all_text, Min(starts), DateEnd(all_text, Min(starts)) - 1))

HtmlDate(all_text) ==
    FirstDate(all_text,
              {i \in 1..Len(all_text) :
                 /\ CharAt(all_text, i) \in WordChars
                 /\ CharAt(all_text, i - 1) \notin WordChars
                 /\ DateEnd(all_text, i) > 0})

\* (?:,\d+)* at position i: the position after the last ",<digits>" group.
RECURSIVE ThousandsEnd(_, _)
ThousandsEnd(s, i) ==
    LET Group(e) == IF e > 0 THEN ThousandsEnd(s, e) ELSE i
    IN  Group(Plus(s, Lit(s, i, ","), Digits))

\* info["attendance"]: the number of the first Attendance[:\s]+(\d+(?:,\d+)*)
HtmlAttendance(all_text) ==
    LET NumberEnd(p) ==
            Plus(all_text, Plus(all_text, p + Len("Attendance"), SpaceChars \cup {":"}),
                 Digits)
        Value(d) ==
            DigitsValue(Replace(SubSeq(all_text, RunStart(all_text, d - 1, Digits) + 1,
                                       ThousandsEnd(all_text, d) - 1), ",", ""))
        First(at) == IF at = {} THEN 0 ELSE Value(NumberEnd(Min(at)))
    IN  First({p \in Occurrences(all_text, "Attendance") : NumberEnd(p) > 0})

\* The first two lines of the same window that are a number, whatever its
\* size: the totals without the check of the range.
HtmlShotsAnyNumber(lines) ==
    LET FirstTwo(totals) ==
            IF Cardinality(totals) < 2 THEN <<0, 0>>
            ELSE <<DigitsValue(Strip(lines[Min(totals)])),
                   DigitsValue(Strip(lines[Min(totals \ {Min(totals)})]))>>
        After(i) ==
            FirstTwo({j \in (i + 10)..Min({i + 49, Len(lines)}) : IsDigits(Strip(lines[j]))})
        First(at) == IF at = {} THEN <<0, 0>> ELSE After(Min(at))
    IN  First({i \in 1..Len(lines) : Strip(lines[i]) = "SHOTS"})

\* The totals list of extract_game_info_from_html: the first two lines of
\* lines[shots_index+10 .. min(shots_index+50, len)-1] (0-based) that are a
\* number from 20 to 59, as <<away, home>>; <<0, 0>> with fewer than two or
\* without a SHOTS line.
HtmlShots(lines) ==
    LET IsTotal(text) ==
            IsDigits(text) /\ DigitsValue(text) >= 20 /\ DigitsValue(text) < 60
        FirstTwo(totals) ==
            IF Cardinality(totals) < 2 THEN <<0, 0>>
            ELSE <<DigitsValue(Strip(lines[Min(totals)])),
                   DigitsValue(Strip(lines[Min(totals \ {Min(totals)})]))>>
        After(i) ==
            FirstTwo({j \in (i + 10)..Min({i + 49, Len(lines)}) : IsTotal(Strip(lines[j]))})
        First(at) == IF at = {} THEN <<0, 0>> ELSE After(Min(at))
    IN  First({i \in 1..Len(lines) : Strip(lines[i]) = "SHOTS"})

\* The info dictionary, totals being <<away, home>>.
HtmlInfo(all_text, status, totals) ==
    [date |-> HtmlDate(all_text),
     attendance |-> HtmlAttendance(all_text),
     status |-> status,
     away_shots |-> totals[1],
     home_shots |-> totals[2]]

\* lines = all_text.split("\n")
HtmlInfoOfLines(all_text, lines) == HtmlInfo(all_text, ScoringStatus(lines), HtmlShots(lines))

extract_game_info_from_html(all_text) == HtmlInfoOfLines(all_text, Split(all_text, "\n"))

\* row.get_text(strip=True): the stripped texts of the cells, joined.
RowText(row) == Join([k \in 1..Len(row) |-> Strip(row[k])], "")

\* The group of the first (\d+)(?:st|nd|rd|th) in period_text as a number,
\* 0 when there is none.
OrdinalPeriod(period_text) ==
    LET First(starts) ==
            IF starts = {} THEN 0
            ELSE DigitsValue(SubSeq(period_text, Min(starts),
                                    RunEnd(period_text, Min(starts), Digits) - 1))
    IN  First({i \in 1..Len(period_text) :
                 /\ CharAt(period_text, i) \in Digits
                 /\ CharAt(period_text, i - 1) \notin Digits
                 /\ \E suffix \in {"st", "nd", "rd", "th"} :
                      StartsWithAt(period_text, suffix, RunEnd(period_text, i, Digits))})

\* re.match(r"([A-Za-z\.\s]+)\s+\((\d+)\)", goals_text): the name takes the
\* run of letters, full stops and whitespace less the one whitespace
\* character it must leave before the "(".
ScorerMatch(goals_text) ==
    LET Scorer(open, end) ==
            IF open >= 3 /\ CharAt(goals_text, open - 1) \in SpaceChars /\ end > 0
            THEN [found |-> TRUE,
                  player_name |-> Strip(SubSeq(goals_text, 1, open - 2)),
                  player_number |-> DigitsValue(SubSeq(goals_text, open + 1, end - 2))]
            ELSE [found |-> FALSE]
        NumberAt(open) == Scorer(open, ParenNumberEnd(goals_text, open))
    IN  NumberAt(RunEnd(goals_text, 1, UpperCase \cup LowerCase \cup SpaceChars \cup {"."}))

\* The goals one row of the goals table adds: none or one.
GoalOfRow(cells) ==
    LET StrippedAll(pieces) == [k \in 1..Len(pieces) |-> Strip(pieces[k])]
        Assists(assists_text) ==
            IF assists_text = "" THEN <<>> ELSE StrippedAll(Split(assists_text, ","))
        Goal(goal_num_text, goals_text, period, scorer) ==
            IF \/ period = 0 \/ goals_text = ""
               \/ ~scorer.found
               \/ IntRaises(goal_num_text)
            THEN <<>>
            ELSE <<[goal_number |-> PyInt(goal_num_text),
                    player_name |-> scorer.player_name,
                    player_number |-> scorer.player_number,
                    team |-> Strip(cells[4]),
                    assists |-> Assists(Strip(cells[7])),
                    time |-> Strip(cells[5]),
                    period |-> period,
                    power_play |-> IF Len(cells) > 7
                                   THEN Contains(goals_text, "(PP)") \/ cells[8] = "PP"
                                   ELSE FALSE,
                    empty_net |-> Contains(goals_text, "(EN)"),
                    short_handed |-> Contains(goals_text, "(SH)")]>>
        Row(goal_num_text, period_text, goals_text) ==
            IF period_text = "" \/ goal_num_text = "" THEN <<>>
            ELSE Goal(goal_num_text, goals_text, OrdinalPeriod(period_text),
                      ScorerMatch(goals_text))
    IN  IF Len(cells) < 7 THEN <<>>
        ELSE Row(Strip(cells[2]), Strip(cells[3]), Strip(cells[6]))

\* The goals of the rows from row k on, in row order.
RECURSIVE GoalsOfRows(_, _)
GoalsOfRows(rows, k) ==
    IF k > Len(rows) THEN <<>> ELSE GoalOfRow(rows[k]) \o GoalsOfRows(rows, k + 1)

\* The goals of the last of goals_tables: what a loop without the break
\* after its first goals table would keep.
LastGoalsTable(tables, goals_tables) ==
    IF goals_tables = {} THEN <<>>
    ELSE GoalsOfRows(tables[Max(goals_tables)], 2)

\* The goals of the first of goals_tables, all but its header row.
FirstGoalsTable(tables, goals_tables) ==
    IF goals_tables = {} THEN <<>>
    ELSE GoalsOfRows(tables[Min(goals_tables)], 2)

extract_goals_from_html(tables) ==
    FirstGoalsTable(tables,
                    {t \in 1..Len(tables) :
                       /\ Len(tables[t]) > 0
                       /\ \A header \in {"V-H", "Per", "Goals", "Assists"} :
                            Contains(RowText(tables[t][1]), header)})

\* The period number of a penalties row.
PenaltyPeriod(period_text) ==
    IF Contains(period_text, "1st") THEN 1
    ELSE IF Contains(period_text, "2nd") THEN 2
    ELSE IF Contains(period_text, "3rd") THEN 3
    ELSE IF /\ Contains(period_text, "OT")
            /\ ~Contains(period_text, "2OT")
            /\ ~Contains(period_text, "3OT") THEN 4
    ELSE IF Contains(period_text, "2OT") THEN 5
    ELSE IF Contains(period_text, "3OT") THEN 6
    ELSE 0

\* The penalties one row of the penalties table adds: none or one.
PenaltyOfRow(cells) ==
    LET Team(team_text) == IF team_text = "" THEN "UNK" ELSE team_text
        FirstNumber(minutes_text, digits) ==
            IF digits = {} THEN 2
            ELSE DigitsValue(SubSeq(minutes_text, Min(digits),
                                    RunEnd(minutes_text, Min(digits), Digits) - 1))
        Minutes(minutes_text) ==
            FirstNumber(minutes_text,
                        {i \in 1..Len(minutes_text) : CharAt(minutes_text, i) \in Digits})
        Row(period_text, player_name, penalty_type) ==
            IF period_text = "" \/ player_name = "" \/ penalty_type = "" THEN <<>>
            ELSE <<[player_name |-> player_name,
                    team |-> Team(Strip(cells[2])),
                    penalty_type |-> penalty_type,
                    time |-> Strip(cells[6]),
                    period |-> PenaltyPeriod(period_text),
                    duration_minutes |-> Minutes(Strip(cells[4]))]>>
    IN  IF Len(cells) < 6 THEN <<>>
        ELSE Row(Strip(cells[1]), Strip(cells[3]), Strip(cells[5]))

\* The penalties of the rows from row k on, in row order.
RECURSIVE PenaltiesOfRows(_, _)
PenaltiesOfRows(rows, k) ==
    IF k > Len(rows) THEN <<>>
    ELSE PenaltyOfRow(rows[k]) \o PenaltiesOfRows(rows, k + 1)

\* The penalties of the first of penalties_tables, all but its two header
\* rows.
FirstPenaltiesTable(tables, penalties_tables) ==
    IF penalties_tables = {} THEN <<>>
    ELSE PenaltiesOfRows(tables[Min(penalties_tables)], 3)

extract_penalties_from_html(tables) ==
    FirstPenaltiesTable(tables,
                        {t \in 1..Len(tables) :
                           /\ Len(tables[t]) > 2
                           /\ RowText(tables[t][1]) = "PENALTIES"
                           /\ Contains(RowText(tables[t][2]), "Player")
                           /\ Contains(RowText(tables[t][2]), "Offense")})

\* max(goal.period for goal in goals, default=0)
MaxPeriod(goals) ==
    IF goals = <<>> THEN 0 ELSE Max({goals[k].period : k \in 1..Len(goals)})

\* As HtmlOutcome, with the overtime count read from the status alone.
HtmlOutcomeStatusOnly(game_status, goals) ==
    [overtime_periods |-> IF Contains(game_status, "OT") THEN 1 ELSE 0,
     decided_by_shootout |-> Contains(game_status, "SO"),
     game_format |-> determine_game_format(game_status)]

\* As HtmlOutcome, with the shootout flag also set by an overtime status.
HtmlOutcomeShootoutOnOT(game_status, goals) ==
    [overtime_periods |->
         IF MaxPeriod(goals) > 3 THEN MaxPeriod(goals) - 3
         ELSE IF Contains(game_status, "OT") THEN 1 ELSE 0,
     decided_by_shootout |->
         Contains(game_status, "SO") \/ Contains(game_status, "OT"),
     game_format |-> determine_game_format(game_status)]

\* As HtmlOutcome, with the overtime count read from the goals alone.
HtmlOutcomeGoalsOnly(game_status, goals) ==
    [overtime_periods |-> IF MaxPeriod(goals) > 3 THEN MaxPeriod(goals) - 3 ELSE 0,
     decided_by_shootout |-> Contains(game_status, "SO"),
     game_format |-> determine_game_format(game_status)]

\* The outcome fields of scrape_official_game_report: the shootout flag and
\* the format from the status, the overtime count from the status and the
\* goals.
HtmlOutcome(game_status, goals) ==
    [overtime_periods |->
         IF Contains(game_status, "OT")
         THEN (IF goals # <<>> /\ MaxPeriod(goals) > 3 THEN MaxPeriod(goals) - 3 ELSE 1)
         ELSE IF goals # <<>> /\ MaxPeriod(goals) > 3 THEN MaxPeriod(goals) - 3
         ELSE 0,
     decided_by_shootout |-> Contains(game_status, "SO"),
     game_format |-> determine_game_format(game_status)]

\* parse_html_game_report never returns None for a document: none of the
\* extractors lets an exception out. A team the patterns do not find is None.
HtmlGameInfo(game_id, game_type, teams, scores, html_officials, html_goals, html_penalties, game_info, outcome) ==
    [none |-> FALSE,
     game_id |-> game_id,
     game_type |-> game_type,
     game_format |-> outcome.game_format,
     away_team |-> teams.away,
     home_team |-> teams.home,
     away_score |-> scores.away,
     home_score |-> scores.home,
     game_status |-> game_info.status,
     game_date |-> game_info.date,
     attendance |-> game_info.attendance,
     home_shots |-> game_info.home_shots,
     away_shots |-> game_info.away_shots,
     overtime_periods |-> outcome.overtime_periods,
     decided_by_shootout |-> outcome.decided_by_shootout,
     referees |-> html_officials.referees,
     linespersons |-> html_officials.linespersons,
     goals |-> html_goals,
     penalties |-> html_penalties]

\* What parse_html_game_report makes of the extracted data.
HtmlData(game_id, game_type, teams, scores, html_officials, html_goals, html_penalties, game_info) ==
    HtmlGameInfo(game_id, game_type, teams, scores, html_officials, html_goals,
                 html_penalties, game_info, HtmlOutcome(game_info.status, html_goals))

scrape_official_game_report(game_id, game_type, document) ==
    HtmlData(game_id, game_type,
             extract_teams_from_html(document.text),
             extract_scores_from_html(document.text),
             extract_officials_from_html(document.text),
             extract_goals_from_html(document.tables),
             extract_penalties_from_html(document.tables),
             extract_game_info_from_html(document.text))

\* ------------------------------------------ the status on its own

\* The most lines drawn between the SCORING line and the tokens.
MaxFill == 9

\* The lines of a scoring section: the period numbers and the scores of the
\* teams.
FillLines ==
    <<"1", "2", "3", "Texas", "1", "1", "1", "3", "Coachella Valley", "2", "0", "2", "4">>

\* The lines drawn after the period numbers: the column heads of overtime,
\* shootout and total, with blanks around them, and a head of the shots
\* section.
ScoringTokens == {"OT", "SO", "SHOOTOUT", "T", " SO ", "OT1"}

\* What a page has before its SCORING line.
BeforeScoring == {<<>>, <<"Official Game Report">>, <<"OT", "SHOOTOUT">>}

\* The text of a page: the lines before, SCORING, fill lines, two tokens, the
\* total, and a second scoring section that went to a shootout.
ScoringText(before, fill, first, second) ==
    Join(before \o <<"SCORING">> \o SubSeq(FillLines, 1, fill) \o <<first, second>>
            \o <<"T", "SCORING", "SO", "T">>,
         "\n")

InitScoring ==
    /\ arg \in {[before |-> before, fill |-> fill, first |-> first, second |-> second,
                  all_text |-> ScoringText(before, fill, first, second)] :
                  before \in BeforeScoring, fill \in 0..MaxFill,
                  first \in ScoringTokens, second \in ScoringTokens}
    /\ ret = NothingCalled
    /\ NoPipeline

CallExtractGameInfoFromHtml ==
    ReturnOnly("extract_game_info_from_html", extract_game_info_from_html(arg.all_text))

NextScoring == CallExtractGameInfoFromHtml

SpecScoring == InitScoring /\ [][NextScoring]_vars

\* The tokens of the page among the nine lines after the first SCORING line
\* and before a standalone "T".
ScannedTokens ==
    (IF arg.fill + 1 <= 9 THEN {Strip(arg.first)} ELSE {})
    \cup (IF arg.fill + 2 <= 9 /\ Strip(arg.first) # "T" THEN {Strip(arg.second)} ELSE {})

MaxGoalPeriod == 6

MaxGoals == 2

\* The statuses extract_game_info_from_html builds.
HtmlStatuses == {"Final", "Final/OT", "Final/SO"}

\* A goal of the goals table scored in period; 0 is the period of a row
\* whose "Per" cell has no ordinal.
GoalIn(period) ==
    [team |-> "CV", period |-> period, goal_number |-> 1, player_name |-> "A. Smith",
     player_number |-> 2, assists |-> <<>>, time |-> "19:02", power_play |-> FALSE,
     empty_net |-> FALSE, short_handed |-> FALSE]

GoalLists ==
    UNION {[1..n -> {GoalIn(period) : period \in 0..MaxGoalPeriod}] : n \in 0..MaxGoals}

InitOutcome ==
    /\ arg \in {[game_status |-> game_status, goals |-> goals] :
                  game_status \in HtmlStatuses, goals \in GoalLists}
    /\ ret = NothingCalled
    /\ NoPipeline

\* The statements of scrape_official_game_report that work out
\* decided_by_shootout, overtime_periods and game_format.
CallHtmlOutcome ==
    ReturnOnly("scrape_official_game_report", HtmlOutcome(arg.game_status, arg.goals))

NextOutcome == CallHtmlOutcome

SpecOutcome == InitOutcome /\ [][NextOutcome]_vars

\* The overtime count the status gives, and the one the goals give.
StatusCount(game_status) == IF Contains(game_status, "OT") THEN 1 ELSE 0

GoalCount(goals) ==
    IF \E k \in 1..Len(goals) : goals[k].period > 3
    THEN Max({goals[k].period : k \in 1..Len(goals)}) - 3
    ELSE 0

\* C19: in the HTML path overtime_periods is the larger of the count the
\* status gives (1 when it contains "OT") and the count the goals give (the
\* largest goal period less 3, when a goal has a period above 3).
C19_LargerOfStatusAndGoals ==
    Called("scrape_official_game_report") =>
        ret["scrape_official_game_report"].overtime_periods
            = Max({StatusCount(arg.game_status), GoalCount(arg.goals)})

\* An overtime status with a goal in the second overtime, and a status
\* without overtime with a goal in the first.
C19_Witness ==
    /\ Called("scrape_official_game_report")
    /\ \/ /\ arg.game_status = "Final/OT"
          /\ arg.goals = <<GoalIn(2), GoalIn(5)>>
          /\ ret["scrape_official_game_report"].overtime_periods = 2
       \/ /\ arg.game_status = "Final"
          /\ arg.goals = <<GoalIn(4)>>
          /\ ret["scrape_official_game_report"].overtime_periods = 1

\* ---------------------------------------- the two classifiers side by side

\* Statuses either report can carry: those extract_game_info_from_html
\* builds, and those of the line reports with a count or with both parts.
SharedStatuses == HtmlStatuses \cup {"Final/2OT", "Final/OT/SO", "Final (shootout)"}

InitClassify ==
    /\ arg \in {[game_status |-> game_status, goals |-> goals] :
                  game_status \in SharedStatuses, goals \in GoalLists}
    /\ ret = NothingCalled
    /\ NoPipeline

\* The statements of extract_game_info that work out overtime_periods,
\* decided_by_shootout and game_format.
CallLineOutcome ==
    ReturnOnly("extract_game_info", LineOutcome(arg.game_status))

NextClassify == CallLineOutcome \/ CallHtmlOutcome

SpecClassify == InitClassify /\ [][NextClassify]_vars

\* C27 as stated: for the same status and the same goals, extract_game_info
\* and scrape_official_game_report give the same game_format,
\* overtime_periods and decided_by_shootout.
C27_AsStated ==
    LET Same(a, b) ==
            /\ a.game_format = b.game_format
            /\ a.overtime_periods = b.overtime_periods
            /\ a.decided_by_shootout = b.decided_by_shootout
    IN  /\ Called("extract_game_info") =>
              Same(ret["extract_game_info"], HtmlOutcome(arg.game_status, arg.goals))
        /\ Called("scrape_official_game_report") =>
              Same(ret["scrape_official_game_report"], LineOutcome(arg.game_status))

\* ------------------------------------------------ the two extractors
\* Line reports are put together from the lines of the reference report:
\* header, date, period scores, period lines, shots, power plays, goalies,
\* attendance, officials.

GameTypes == {"regular", "post", "all-star"}

LineStatuses == {"Final", "Final/OT", "Final/2OT", "Final/OT/SO", "Final/SO"}

RegulationPeriodLines ==
    <<"1st Period-1, Rochester, Kulich 5 (Jobst, Prow), 9:57 (PP). Penalties-Shaw Tor (tripping), 8:00; Jobst Roc (cross-checking), 20:00.",
      "2nd Period-No Scoring. Penalties-No Penalties.",
      "3rd Period-2, Toronto, Steeves 1 (Ellis, Zohorna), 18:22. 3, Rochester, Warren 1 (Murray), 19:15 (EN). Penalties-Eliot Roc (boarding), 16:43.">>

\* The period lines of a report: none, regulation only, or regulation and a
\* fourth period with the deciding goal.
PeriodLines(periods) ==
    IF periods = "none" THEN <<>>
    ELSE IF periods = "regulation" THEN RegulationPeriodLines
    ELSE RegulationPeriodLines
            \o <<"4th Period-4, Rochester, Mersch 5 (Malone), 7:12. Penalties-No Penalties.">>

LineHeader(header, status) ==
    IF header = "ok" THEN HeaderLine("Rochester", "3", "Toronto", "2", status)
    ELSE IF header = "no_names" THEN HeaderLine("", "3", "", "2", status)
    ELSE IF header = "no_scores" THEN "Rochester at Toronto - Status: " \o status
    ELSE "Rochester 3 at Toronto 2"

\* attendance is the attendance line, None for a report without one.
LineShapes ==
    [status : LineStatuses, periods : {"none", "regulation", "fourth"},
     attendance : {"A-6,212", "A-n/a", None}, shots : BOOLEAN,
     officials : {TRUE}, header : {"ok"}, date : {TRUE}]
    \cup
    [status : {"Final"}, periods : {"none", "regulation"},
     attendance : {"A-6,212"}, shots : {TRUE},
     officials : BOOLEAN, header : {"ok", "no_names", "no_scores", "no_status"},
     date : BOOLEAN]

LineGame(shape) ==
    <<LineHeader(shape.header, shape.status),
      IF shape.date THEN "Saturday, May 13, 2023 - Coca-Cola Coliseum"
      ELSE "Sat, May 13, 2023 - Coca-Cola Coliseum",
      "Rochester 1 0 2 - 3", "Toronto 0 0 2 - 2">>
    \o PeriodLines(shape.periods)
    \o (IF shape.shots THEN <<"Shots on Goal-Rochester 8-14-9-31. Toronto 9-20-9-38.">>
        ELSE <<>>)
    \o <<"Power Play Opportunities-Rochester 1 / 5; Toronto 0 / 6.",
         "Goalies-Rochester, Subban 7-4 (38 shots-36 saves). Toronto, Petruzzelli 1-2 (31 shots-28 saves).">>
    \o (IF shape.attendance = None THEN <<>> ELSE <<shape.attendance>>)
    \o (IF shape.officials
        THEN <<"Referees-Cody Beach (45), Beau Halkidis (48).",
               "Linesmen-Ryan Jackson (84), Joseph Mahon (89).">>
        ELSE <<>>)

\* Official reports are put together the same way: a title, the score
\* line, the SCORING and SHOTS sections, attendance, officials, and the
\* goals and penalties tables, whose cell texts are part of the text too.
HtmlTitleLines(title) ==
    IF title = "gamesheet"
    THEN <<"Gamesheet: Texas at Coachella Valley - Apr 22, 2025",
           "Texas 3 at Coachella Valley 4">>
    ELSE IF title = "scoreline" THEN <<"Texas 3 at Coachella Valley 4">>
    ELSE <<"Official Game Report">>

HtmlScoringLines(scoring) ==
    IF scoring = "none" THEN <<>>
    ELSE <<"SCORING", "1", "2", "3">>
            \o (IF scoring \in {"OT", "OT_SO"} THEN <<"OT">> ELSE <<>>)
            \o (IF scoring = "OT_SO" THEN <<"SO">> ELSE <<>>)
            \o <<"T", "Texas", "1", "1", "1", "3", "Coachella Valley", "2", "0", "2", "4">>

HtmlShotsLines ==
    <<"SHOTS", "1", "2", "3", "OT1", "OT2", "OT3", "SO", "T", "",
      "Texas", "8", "14", "9", "0", "0", "0", "0", "31", "",
      "Coachella Valley", "9", "11", "18", "0", "0", "0", "0", "38">>

GoalsHeaderRow == <<"V-H", "#", "Per", "Team", "Time", "Goals", "Assists", "PP">>

\* The goals table of a report: none, goals of regulation only, with a goal
\* of a fourth period, or with a goal whose period cell reads OT.
HtmlGoalsTable(goals) ==
    IF goals = "none" THEN <<>>
    ELSE <<<<GoalsHeaderRow,
             <<"V", "1", "1st", "TEX", "12:34", "J. Hayden (1)", "K. Rose, M. Bell", "">>,
             <<"H", "2", "3rd", "CV", "19:02", "A. Smith (2) (PP)", "", "PP">>>>
            \o (IF goals = "fourth"
                THEN <<<<"H", "3", "4th", "CV", "3:08", "B. Jones (7)", "A. Smith", "">>>>
                ELSE IF goals = "ot_cell"
                THEN <<<<"H", "3", "OT", "CV", "3:08", "B. Jones (7)", "A. Smith", "">>>>
                ELSE <<>>)>>

HtmlPenaltiesTable ==
    <<<<<<"PENALTIES">>, <<"P", "T", "Player", "M", "Offense", "Time">>,
        <<"1st", "V", "J. Doe", "2", "Tripping", "3:10">>,
        <<"OT", "H", "A. Smith", "5", "Fighting", "1:00">>>>>>

HtmlShapes ==
    [title : {"gamesheet", "scoreline", "none"},
     scoring : {"none", "regulation", "OT", "OT_SO"},
     goals : {"none", "regulation", "fourth", "ot_cell"},
     shots : {TRUE}, attendance : {TRUE}, officials : {TRUE}, penalties : {TRUE}]
    \cup
    [title : {"gamesheet"}, scoring : {"regulation"}, goals : {"regulation"},
     shots : BOOLEAN, attendance : BOOLEAN, officials : BOOLEAN,
     penalties : BOOLEAN]

HtmlDocument(shape) ==
    LET tables == HtmlGoalsTable(shape.goals)
                    \o (IF shape.penalties THEN HtmlPenaltiesTable ELSE <<>>)
        lines == HtmlTitleLines(shape.title)
                    \o HtmlScoringLines(shape.scoring)
                    \o (IF shape.shots THEN HtmlShotsLines ELSE <<>>)
                    \o (IF shape.attendance THEN <<"Attendance: 4,330">> ELSE <<>>)
                    \o (IF shape.officials
                        THEN <<"Referee: Mike Sullivan (47)Jordan Samuels-Thomas (42)",
                               "Linespersons: J. Doe (12)A. Briggs (3)">>
                        ELSE <<>>)
                    \o [t \in 1..Len(tables) |->
                          Join([r \in 1..Len(tables[t]) |-> Join(tables[t][r], "\n")], "\n")]
    IN  [text |-> Join(lines, "\n") \o "\n", tables |-> tables]

\* An official report URL answered with one of the two sentinel bodies.
SentinelDocument(body) == [text |-> body, tables |-> <<>>]

ExtractArgs ==
    {[kind |-> "line", game_id |-> 1027888, game_type |-> "regular",
      shape |-> sh, game_details |-> LineGame(sh)] : sh \in LineShapes}
    \cup
    {[kind |-> "html", game_id |-> 1027888, game_type |-> "regular",
      shape |-> sh, document |-> HtmlDocument(sh)] : sh \in HtmlShapes}
    \cup
    {[kind |-> "sentinel", game_id |-> 1027888, game_type |-> "regular",
      shape |-> [body |-> body], document |-> SentinelDocument(body)] :
        body \in {NOT_AVAILABLE, NO_SUCH_GAME}}

InitExtract ==
    /\ arg \in ExtractArgs
    /\ ret = NothingCalled
    /\ NoPipeline

CallExtractGameInfo ==
    /\ arg.kind = "line"
    /\ ReturnOnly("extract_game_info",
                  extract_game_info(arg.game_id, arg.game_type, arg.game_details))

CallScrapeOfficialGameReport ==
    /\ arg.kind \in {"html", "sentinel"}
    /\ ReturnOnly("scrape_official_game_report",
                  scrape_official_game_report(arg.game_id, arg.game_type, arg.document))

NextExtract == CallExtractGameInfo \/ CallScrapeOfficialGameReport

SpecExtract == InitExtract /\ [][NextExtract]_vars

Extractors == {"extract_game_info", "scrape_official_game_report"}

\* The extractor f has returned a GameInfo.
Emitted(f) == Called(f) /\ ~ret[f].none

HasOvertimeGoal(game_info) ==
    \E k \in 1..Len(game_info.goals) : game_info.goals[k].period > 3

\* C3 as stated: in every GameInfo either extractor returns,
\* overtime_periods > 0 exactly when the format is overtime or some goal has
\* a period above 3.
C3_AsStated ==
    \A f \in Extractors :
        Emitted(f) =>
            ((ret[f].overtime_periods > 0)
                <=> (ret[f].game_format = OVERTIME \/ HasOvertimeGoal(ret[f])))

\* C3: in every GameInfo scrape_official_game_report returns,
\* overtime_periods > 0 exactly when the format is overtime or some goal has
\* a period above 3; in every GameInfo extract_game_info returns, the format
\* overtime implies overtime_periods > 0 and overtime_periods > 0 implies
\* that the format is overtime or shootout.
C3_OvertimeCountAndFormat ==
    /\ Emitted("scrape_official_game_report") =>
          ((ret["scrape_official_game_report"].overtime_periods > 0)
              <=> (\/ ret["scrape_official_game_report"].game_format = OVERTIME
                   \/ HasOvertimeGoal(ret["scrape_official_game_report"])))
    /\ Emitted("extract_game_info") =>
          /\ ret["extract_game_info"].game_format = OVERTIME
                => ret["extract_game_info"].overtime_periods > 0
          /\ ret["extract_game_info"].overtime_periods > 0
                => ret["extract_game_info"].game_format \in {OVERTIME, SHOOTOUT}

\* An official report with a regulation SCORING section and a goal of a
\* fourth period has been extracted: the overtime count comes from the goal.
C3_Witness ==
    /\ Emitted("scrape_official_game_report")
    /\ ret["scrape_official_game_report"].game_status = "Final"
    /\ HasOvertimeGoal(ret["scrape_official_game_report"])
    /\ ret["scrape_official_game_report"].overtime_periods = 1

\* C4: in every GameInfo either extractor returns, decided_by_shootout
\* implies that the format is shootout.
C4_ShootoutImpliesFormat ==
    \A f \in Extractors :
        (Emitted(f) /\ ret[f].decided_by_shootout) => ret[f].game_format = SHOOTOUT

\* An official report with an SO column has been extracted: the shootout
\* flag is set and the format is shootout.
C4_Witness ==
    /\ Emitted("scrape_official_game_report")
    /\ arg.kind = "html"
    /\ arg.shape.scoring = "OT_SO"
    /\ ret["scrape_official_game_report"].decided_by_shootout
    /\ ret["scrape_official_game_report"].game_format = SHOOTOUT

\* C5 as stated: in every GameInfo either extractor returns, the format is
\* shootout if decided_by_shootout, else overtime if overtime_periods > 0,
\* else regulation.
C5_AsStated ==
    \A f \in Extractors :
        Emitted(f) =>
            ret[f].game_format =
                (IF ret[f].decided_by_shootout THEN SHOOTOUT
                 ELSE IF ret[f].overtime_periods > 0 THEN OVERTIME
                 ELSE REGULATION)

\* A line report that is complete but for the line named.
LineReportMissing(line) ==
    /\ arg.kind = "line"
    /\ arg.shape.header = "ok" /\ arg.shape.date /\ arg.shape.officials
    /\ IF line = "attendance"
       THEN arg.shape.attendance = None /\ arg.shape.shots
       ELSE arg.shape.attendance # None /\ ~arg.shape.shots

\* C9 as stated: a report without the attendance line gives a GameInfo with
\* attendance 0, and a report without the shots-on-goal line gives a
\* GameInfo with both shot counts 0; the game is not dropped.
C9_AsStated ==
    /\ (Called("extract_game_info") /\ LineReportMissing("attendance")) =>
          /\ Emitted("extract_game_info")
          /\ ret["extract_game_info"].attendance = 0
    /\ (Called("extract_game_info") /\ LineReportMissing("shots")) =>
          /\ Emitted("extract_game_info")
          /\ ret["extract_game_info"].home_shots = 0
          /\ ret["extract_game_info"].away_shots = 0
    /\ (Called("scrape_official_game_report") /\ arg.kind = "html") =>
          /\ Emitted("scrape_official_game_report")
          /\ ~arg.shape.attendance =>
                ret["scrape_official_game_report"].attendance = 0
          /\ ~arg.shape.shots =>
                /\ ret["scrape_official_game_report"].home_shots = 0
                /\ ret["scrape_official_game_report"].away_shots = 0

\* ------------------------------------------- the shots on their own

\* The number of lines drawn inside the window scanned for totals.
ShotSlots == 3

\* The texts drawn for those lines.
SlotTexts == {"19", "20", "59", "60", " 38 ", "x3"}

\* n lines that are no number.
Filler(n) == [k \in 1..n |-> "x"]

\* A page: the attendance, the SHOTS header (or a line that is not one), a
\* number before the window, the drawn lines at the start of the window and
\* the last of them on its last line, a number after the window, and a
\* second section of its kind with two totals.
ShotsLines(header, slots) ==
    <<"Attendance: 4330", header, "33">> \o Filler(8)
    \o SubSeq(slots, 1, Len(slots) - 1)
    \o Filler(40 - Len(slots)) \o <<slots[Len(slots)]>>
    \o <<"45", IF Strip(header) = "SHOTS" THEN "SHOTS" ELSE "TOTAL SHOTS">>
    \o Filler(9) \o <<"44", "46">>

InitShots ==
    /\ arg \in {[header |-> header, slots |-> slots,
                  all_text |-> Join(ShotsLines(header, slots), "\n")] :
                  header \in {" SHOTS ", "SHOTS ON GOAL"},
                  slots \in [1..ShotSlots -> SlotTexts]}
    /\ ret = NothingCalled
    /\ NoPipeline

CallInfoFromHtml ==
    Return("extract_game_info_from_html", extract_game_info_from_html(arg.all_text))

CallShots ==
    Return("shots", HtmlShots(Split(arg.all_text, "\n")))

NextShots == CallInfoFromHtml \/ CallShots

SpecShots == InitShots /\ [][NextShots]_vars

\* The drawn lines that are a number from 20 to 59, in page order.
DrawnTotals ==
    LET Total(text) == CASE text = "20" -> <<20>>
                         [] text = "59" -> <<59>>
                         [] text = " 38 " -> <<38>>
                         [] OTHER -> <<>>
        Totals[k \in 0..Len(arg.slots)] ==
            IF k = 0 THEN <<>> ELSE Totals[k - 1] \o Total(arg.slots[k])
    IN  Totals[Len(arg.slots)]

\* C22: away_shots and home_shots are both 0 or both from 20 to 59: they are
\* the first two lines of the window after the first SHOTS line that are a
\* number in that range, away first, and both stay 0 when there are fewer
\* than two such lines or no SHOTS line; the attendance, date and status of
\* the page are read all the same.
C22_ShotsBothOrNeither ==
    Called("extract_game_info_from_html") =>
        LET info == ret["extract_game_info_from_html"]
            Read == arg.header = " SHOTS " /\ Len(DrawnTotals) >= 2
        IN  /\ \/ info.away_shots = 0 /\ info.home_shots = 0
               \/ info.away_shots \in 20..59 /\ info.home_shots \in 20..59
            /\ Read => /\ info.away_shots = DrawnTotals[1]
                       /\ info.home_shots = DrawnTotals[2]
            /\ ~Read => info.away_shots = 0 /\ info.home_shots = 0
            /\ info.attendance = 4330
            /\ info.date = "None"
            /\ info.status = "Final"

\* The totals are the first line of the window and its last one, a number
\* out of the range lying between them.
C22_Witness ==
    /\ Called("extract_game_info_from_html")
    /\ arg.header = " SHOTS "
    /\ arg.slots[1] = "59"
    /\ arg.slots[2] = "60"
    /\ arg.slots[ShotSlots] = " 38 "
    /\ ret["extract_game_info_from_html"].away_shots = 59
    /\ ret["extract_game_info_from_html"].home_shots = 38

\* -------------------------------------------- the two tables on their own

\* The texts drawn for the cells of a goals row and of a penalties row.
SequenceCells == {"1", ""}

GoalPeriodCells == {"1st", "2nd", "4th", "OT", "0th", ""}

ScorerCells == {"J. Hayden (1)", "Hayden", ""}

PenaltyPeriodCells == {"1st", "2nd", "3rd", "OT", "2OT", "3OT", "SO", "4th", ""}

PlayerCells == {"J. Doe", ""}

\* A row of the goals table: V-H, #, Per, Team, Time, Goals, Assists, PP.
GoalsRow(sequence, period, scorer) ==
    <<"V", sequence, period, "TEX", "12:34", scorer, "K. Rose, M. Bell", "">>

\* A goals table with one row, and a later one with a goal of the third
\* period.
GoalsTable(sequence, period, scorer) ==
    <<GoalsHeaderRow, GoalsRow(sequence, period, scorer)>>

LaterGoalsTable == <<GoalsHeaderRow, GoalsRow("9", "3rd", "B. Jones (7)")>>

\* A penalties table with one row: P, T, Player, M, Offense, Time.
PenaltiesTable(period, player) ==
    <<<<"PENALTIES">>, <<"P", "T", "Player", "M", "Offense", "Time">>,
      <<period, "V", player, "2", "Tripping", "3:10">>>>

\* A table that is neither: the three stars of the game.
StarsTable == <<<<"THREE STARS">>, <<"1", "CV", "A. Smith">>>>

TableArgs ==
    {[sequence |-> sequence, period |-> period, scorer |-> scorer,
      penalty_period |-> penalty_period, player |-> player,
      tables |-> <<StarsTable, GoalsTable(sequence, period, scorer),
                   PenaltiesTable(penalty_period, player), LaterGoalsTable>>] :
        sequence \in SequenceCells, period \in GoalPeriodCells, scorer \in ScorerCells,
        penalty_period \in PenaltyPeriodCells, player \in PlayerCells}

InitTables ==
    /\ arg \in TableArgs
    /\ ret = NothingCalled
    /\ NoPipeline

CallExtractGoalsFromHtml ==
    Return("extract_goals_from_html", extract_goals_from_html(arg.tables))

CallExtractPenaltiesFromHtml ==
    Return("extract_penalties_from_html", extract_penalties_from_html(arg.tables))

NextTables == CallExtractGoalsFromHtml \/ CallExtractPenaltiesFromHtml

SpecTables == InitTables /\ [][NextTables]_vars

\* C30: every Goal of extract_goals_from_html has a period of at least 1,
\* the number of the ordinal in its row's period cell; a row whose period
\* cell holds no ordinal (OT), or the ordinal of no period (0th), or whose
\* sequence, scorer or period cell is empty gives no Goal; and no Goal comes
\* from a goals table after the first.
C30_GoalsFromOrdinalRows ==
    Called("extract_goals_from_html") =>
        LET goals == ret["extract_goals_from_html"]
            PeriodOfCell == [period \in {"1st", "2nd", "4th"} |->
                           CASE period = "1st" -> 1
                             [] period = "2nd" -> 2
                             [] period = "4th" -> 4]
        IN  /\ \A k \in 1..Len(goals) :
                  /\ goals[k].period >= 1
                  /\ arg.period \in DOMAIN PeriodOfCell
                  /\ goals[k].period = PeriodOfCell[arg.period]
                  /\ goals[k].player_name = "J. Hayden"
            /\ Len(goals) <= 1
            /\ \/ arg.period \notin DOMAIN PeriodOfCell
               \/ arg.sequence = ""
               \/ arg.scorer = ""
               => goals = <<>>

\* A goal of a fourth period is read from the first goals table, and the
\* goal of the later goals table is not.
C30_Witness ==
    /\ Called("extract_goals_from_html")
    /\ arg.period = "4th"
    /\ Len(ret["extract_goals_from_html"]) = 1
    /\ ret["extract_goals_from_html"][1].period = 4
    /\ ret["extract_goals_from_html"][1].goal_number = 1

\* C21 as stated: every Penalty extracted from the penalties table has a
\* period in 1..6.
C21_AsStated ==
    Called("extract_penalties_from_html") =>
        \A k \in 1..Len(ret["extract_penalties_from_html"]) :
            ret["extract_penalties_from_html"][k].period \in 1..6

\* ------------------------------------------------------- the scraper
\* The three entry points of scrapper.py, the requests they make and the
\* database they write.

MaxGames == 2

TEXT_URL ==
    "https://lscluster.hockeytech.com/game_reports/text-game-report.php?client_code=ahl&game_id=1027888"

OFFICIAL_URL ==
    "https://lscluster.hockeytech.com/game_reports/official-game-report.php?client_code=ahl&game_id=1027888&lang_id=1"

\* "official-game-report" in url
IsOfficialUrl(url) == Contains(url, "official-game-report")

\* The body of a line report as the server sends it.
LineResponse(line) ==
    Body([head |-> Len(HeadLines), paren |-> FALSE, indent |-> "    ", tail |-> TRUE], line)

CompleteLineShape ==
    [status |-> "Final", periods |-> "regulation", attendance |-> "A-6,212",
     shots |-> TRUE, officials |-> TRUE, header |-> "ok", date |-> TRUE]

\* response.text of the answers to a text-report URL: three played games
\* (the second decided by a shootout, the third with no team names in its
\* header), a game without an attendance line, the two sentinel bodies, a
\* body of markup only, a body that is no report at all, a game with no
\* scores in its header, and a game whose date has an abbreviated weekday.
TextResponses ==
    <<LineResponse(Join(LineGame(CompleteLineShape), "<br />")),
      LineResponse(Join(LineGame([CompleteLineShape EXCEPT !.status = "Final/OT/SO",
                                                           !.periods = "fourth"]),
                        "<br />")),
      LineResponse(Join(LineGame([CompleteLineShape EXCEPT !.header = "no_names"]),
                        "<br />")),
      LineResponse(Join(LineGame([CompleteLineShape EXCEPT !.attendance = None]),
                        "<br />")),
      LineResponse(NOT_AVAILABLE),
      LineResponse(NO_SUCH_GAME),
      LineResponse(None),
      LineResponse("Service Temporarily Unavailable"),
      LineResponse(Join(LineGame([CompleteLineShape EXCEPT !.header = "no_scores"]),
                        "<br />")),
      LineResponse(Join(LineGame([CompleteLineShape EXCEPT !.date = FALSE]),
                        "<br />"))>>

CompleteHtmlShape ==
    [title |-> "gamesheet", scoring |-> "regulation", goals |-> "regulation",
     shots |-> TRUE, attendance |-> TRUE, officials |-> TRUE, penalties |-> TRUE]

\* The documents parsed from the answers to an official-report URL: two
\* played games (the second decided by a shootout), a page that names no
\* teams, the two sentinel bodies, and a played game whose page has no
\* "Gamesheet:" title and with it no date.
OfficialResponses ==
    <<HtmlDocument(CompleteHtmlShape),
      HtmlDocument([CompleteHtmlShape EXCEPT !.scoring = "OT_SO", !.goals = "fourth"]),
      HtmlDocument([CompleteHtmlShape EXCEPT !.title = "none"]),
      SentinelDocument(NOT_AVAILABLE),
      SentinelDocument(NO_SUCH_GAME),
      HtmlDocument([CompleteHtmlShape EXCEPT !.title = "scoreline"])>>

\* The answers a request to url can get; answer 0 is a RequestException
\* raised by requests.get or raise_for_status.
Responses(url) ==
    IF IsOfficialUrl(url) THEN 0..Len(OfficialResponses) ELSE 0..Len(TextResponses)

\* The game ids and game types the entry points are called with.
GameIds == 1..(MaxGames + 1)

\* extract_game_info(game_id, game_type, get_game_details(response)) for each
\* of TextResponses, worked out once.
LineExtract(game_id, game_type, game_details) ==
    IF game_details.none \/ game_details.items = <<>> THEN NoGameInfo
    ELSE extract_game_info(game_id, game_type, game_details.items)

LineExtracts ==
    {<<game_id, game_type, k,
       LineExtract(game_id, game_type, get_game_details(TextResponses[k]))>> :
        game_id \in GameIds, game_type \in GameTypes, k \in 1..Len(TextResponses)}

\* scrape_official_game_report for each of OfficialResponses, worked out once.
OfficialExtracts ==
    {<<game_id, game_type, k,
       scrape_official_game_report(game_id, game_type, OfficialResponses[k])>> :
        game_id \in GameIds, game_type \in GameTypes, k \in 1..Len(OfficialResponses)}

Extracted(table, game_id, game_type, k) ==
    (CHOOSE e \in table : e[1] = game_id /\ e[2] = game_type /\ e[3] = k)[4]

\* The text-report branch of scrape_game_from_url.
TextReport(game_id, game_type, k, game_details) ==
    IF game_details.none \/ game_details.items = <<>>
          \/ game_details.items = <<NO_SUCH_GAME>>
    THEN NoGameInfo
    ELSE IF game_details.items = <<NOT_AVAILABLE>> THEN NoGameInfo
    ELSE Extracted(LineExtracts, game_id, game_type, k)

\* scrape_game_from_url when the request is answered with answer k of
\* Responses(url).
scrape_game_from_url(game_id, url, game_type, k) ==
    IF k = 0 THEN NoGameInfo
    ELSE IF IsOfficialUrl(url)
    THEN Extracted(OfficialExtracts, game_id, game_type, k)
    ELSE TextReport(game_id, game_type, k, get_game_details(TextResponses[k]))

\* ----------------------------------------------- write_game_to_database

\* int(flag)
PyIntOfBool(flag) == IF flag THEN 1 ELSE 0

\* The row INSERT OR REPLACE INTO games_extended binds for game_info.
GameRow(game_info) ==
    [game_id |-> game_info.game_id,
     game_type |-> game_info.game_type,
     game_format |-> game_info.game_format,
     away_team |-> game_info.away_team,
     home_team |-> game_info.home_team,
     away_score |-> game_info.away_score,
     home_score |-> game_info.home_score,
     game_status |-> game_info.game_status,
     game_date |-> game_info.game_date,
     attendance |-> game_info.attendance,
     home_shots |-> game_info.home_shots,
     away_shots |-> game_info.away_shots,
     overtime_periods |-> game_info.overtime_periods,
     decided_by_shootout |-> PyIntOfBool(game_info.decided_by_shootout)]

\* The rows INSERT INTO goals binds for the goals of game_info.
GoalRows(game_info) ==
    [k \in 1..Len(game_info.goals) |->
        [game_id |-> game_info.game_id,
         goal_number |-> game_info.goals[k].goal_number,
         player_name |-> game_info.goals[k].player_name,
         player_number |-> game_info.goals[k].player_number,
         team |-> game_info.goals[k].team,
         assists |-> Join(game_info.goals[k].assists, ","),
         time |-> game_info.goals[k].time,
         period |-> game_info.goals[k].period,
         power_play |-> PyIntOfBool(game_info.goals[k].power_play),
         empty_net |-> PyIntOfBool(game_info.goals[k].empty_net),
         short_handed |-> PyIntOfBool(game_info.goals[k].short_handed)]]

\* The rows INSERT INTO penalties binds for the penalties of game_info.
PenaltyRows(game_info) ==
    [k \in 1..Len(game_info.penalties) |->
        [game_id |-> game_info.game_id,
         player_name |-> game_info.penalties[k].player_name,
         team |-> game_info.penalties[k].team,
         penalty_type |-> game_info.penalties[k].penalty_type,
         time |-> game_info.penalties[k].time,
         period |-> game_info.penalties[k].period,
         duration_minutes |-> game_info.penalties[k].duration_minutes]]

\* The rows INSERT INTO officials binds: the referees, then the
\* linespersons.
OfficialRows(game_info) ==
    [k \in 1..Len(game_info.referees) |->
        [game_id |-> game_info.game_id, official_type |-> "referee",
         name |-> game_info.referees[k].name,
         number |-> game_info.referees[k].number]]
    \o
    [k \in 1..Len(game_info.linespersons) |->
        [game_id |-> game_info.game_id, official_type |-> "linesperson",
         name |-> game_info.linespersons[k].name,
         number |-> game_info.linespersons[k].number]]

\* As DeleteGame, with no row deleted.
DeleteNothing(rows, game_id) == rows

\* As DeleteGame, with the rows of every game deleted.
DeleteEveryGame(rows, game_id) == <<>>

\* DELETE FROM <table> WHERE game_id = ?
DeleteGame(rows, game_id) == SelectSeq(rows, LAMBDA row : row.game_id # game_id)

\* write_game_to_database on database d: the games_extended row of the game
\* is inserted or replaced, the goals, penalties and officials of the game
\* are deleted and inserted anew, and the whole is committed; when sqlite
\* raises sqlite3.Error (error) nothing is committed and False is returned.
write_game_to_database(d, game_info, error) ==
    IF error THEN [db |-> d, returned |-> FALSE]
    ELSE [db |->
            [d EXCEPT
                !.games_extended =
                    (game_info.game_id :> GameRow(game_info)) @@ d.games_extended,
                !.goals = DeleteGame(d.goals, game_info.game_id) \o GoalRows(game_info),
                !.penalties =
                    DeleteGame(d.penalties, game_info.game_id) \o PenaltyRows(game_info),
                !.officials =
                    DeleteGame(d.officials, game_info.game_id) \o OfficialRows(game_info)],
          returned |-> TRUE]

\* game_exists_in_database on database d; sqlite3.Error (error) gives False.
game_exists_in_database(d, game_id, error) ==
    ~error /\ game_id \in DOMAIN d.games_extended

\* ----------------------------------------------------- the entry points

\* game_examples.yaml as load_game_examples returns it, one item for each
\* format of each game type: the name of the game type and the url, None
\* for a format that has no url.
ExampleFiles ==
    {<<>>,
     <<[game_type_name |-> "regular", url |-> OFFICIAL_URL],
       [game_type_name |-> "post", url |-> TEXT_URL]>>,
     <<[game_type_name |-> "exhibition", url |-> OFFICIAL_URL],
       [game_type_name |-> "all-star", url |-> None],
       [game_type_name |-> "all-star", url |-> TEXT_URL]>>}

\* A game written earlier.
StoredGame(game_id) ==
    write_game_to_database(EmptyDb, Extracted(OfficialExtracts, game_id, "regular", 1),
                           FALSE).db

Calls ==
    {[entry |-> "scrape_game_from_url", game_id |-> 1, url |-> url, game_type |-> game_type] :
        url \in {TEXT_URL, OFFICIAL_URL}, game_type \in GameTypes}
    \cup
    {[entry |-> "scrape_game_id_range", start_game_id |-> 1, num_games |-> num_games] :
        num_games \in 0..MaxGames}
    \cup
    {[entry |-> "scrape_examples_from_yaml", examples |-> examples, game_id_base |-> 1] :
        examples \in ExampleFiles}

Init ==
    /\ arg \in Calls
    /\ ret = NothingCalled
    /\ db \in {EmptyDb, StoredGame(2)}
    /\ loop = [i |-> 0, results |-> <<>>,
               game_id_base |-> IF arg.entry = "scrape_examples_from_yaml"
                                THEN arg.game_id_base ELSE 0]
    /\ locals = NoLocals

\* A call of scrape_game_from_url.
CallScrapeGameFromUrl ==
    LET Returns(k, game_info) ==
            /\ ret' = ("scrape_game_from_url" :> game_info) @@ ret
            /\ locals' = [url |-> arg.url, response |-> k, game_info |-> game_info,
                          written |-> FALSE]
    IN  /\ arg.entry = "scrape_game_from_url"
        /\ ~Called("scrape_game_from_url")
        /\ \E k \in Responses(arg.url) :
              Returns(k, scrape_game_from_url(arg.game_id, arg.url, arg.game_type, k))
        /\ UNCHANGED <<arg, db, loop>>

\* One pass of the loop of scrape_game_id_range for game_id on database d,
\* the request answered with answer k: the results to add, what the pass
\* did, and the database it leaves.
RangePass(d, game_id, exists_error, k, write_error) ==
    LET Done(game_info, written) ==
            [url |-> OFFICIAL_URL, response |-> k, game_info |-> game_info,
             written |-> written]
        Written(game_info, write) ==
            [db |-> write.db, added |-> <<game_info>>,
             locals |-> Done(game_info, write.returned)]
        Scraped(game_info) ==
            IF game_info.away_team = None \/ game_info.home_team = None
            THEN [db |-> d, added |-> <<>>, locals |-> Done(game_info, FALSE)]
            ELSE Written(game_info, write_game_to_database(d, game_info, write_error))
    IN  IF game_exists_in_database(d, game_id, exists_error)
        THEN [db |-> d, added |-> <<>>, locals |-> NoLocals]
        ELSE IF k = 0
        THEN [db |-> d, added |-> <<>>,
              locals |-> [NoLocals EXCEPT !.url = OFFICIAL_URL]]
        ELSE Scraped(Extracted(OfficialExtracts, game_id, "regular", k))

\* scrape_game_id_range: a pass of its loop; the last pass returns the
\* results.
ScrapeGameIdRange ==
    LET Passed(pass, results) ==
            /\ db' = pass.db
            /\ locals' = pass.locals
            /\ loop' = [loop EXCEPT !.i = loop.i + 1, !.results = results]
            /\ ret' = IF loop.i + 1 = arg.num_games
                      THEN ("scrape_game_id_range" :> results) @@ ret
                      ELSE ret
        Pass(pass) == Passed(pass, loop.results \o pass.added)
    IN  /\ arg.entry = "scrape_game_id_range"
        /\ ~Called("scrape_game_id_range")
        /\ loop.i < arg.num_games
        /\ \E exists_error \in BOOLEAN, k \in Responses(OFFICIAL_URL),
              write_error \in BOOLEAN :
              Pass(RangePass(db, arg.start_game_id + loop.i, exists_error, k, write_error))
        /\ UNCHANGED arg

\* scrape_game_id_range over no game ids.
ScrapeNoGameIds ==
    /\ arg.entry = "scrape_game_id_range"
    /\ ~Called("scrape_game_id_range")
    /\ arg.num_games = 0
    /\ ret' = ("scrape_game_id_range" :> <<>>) @@ ret
    /\ UNCHANGED <<arg, db, loop, locals>>

\* One pass of the loops of scrape_examples_from_yaml for item on database
\* d, the request answered with answer k: the results to add, whether a
\* game id was used, what the pass did, and the database it leaves.
YamlPass(d, item, game_id, k, write_error) ==
    LET Done(game_info, written) ==
            [url |-> item.url, response |-> k, game_info |-> game_info,
             written |-> written]
        Written(game_info, write) ==
            [db |-> write.db, added |-> <<game_info>>, used |-> 1,
             locals |-> Done(game_info, write.returned)]
        Scraped(game_info) ==
            IF game_info.none
            THEN [db |-> d, added |-> <<>>, used |-> 1, locals |-> Done(game_info, FALSE)]
            ELSE Written(game_info, write_game_to_database(d, game_info, write_error))
    IN  IF item.game_type_name \notin GameTypes \/ item.url = None
        THEN [db |-> d, added |-> <<>>, used |-> 0, locals |-> NoLocals]
        ELSE Scraped(scrape_game_from_url(game_id, item.url, item.game_type_name, k))

\* scrape_examples_from_yaml: a pass of its loops; the last pass returns
\* the results.
ScrapeExamplesFromYaml ==
    LET Passed(pass, results) ==
            /\ db' = pass.db
            /\ locals' = pass.locals
            /\ loop' = [i |-> loop.i + 1, results |-> results,
                        game_id_base |-> loop.game_id_base + pass.used]
            /\ ret' = IF loop.i + 1 = Len(arg.examples)
                      THEN ("scrape_examples_from_yaml" :> results) @@ ret
                      ELSE ret
        Pass(pass) == Passed(pass, loop.results \o pass.added)
    IN  /\ arg.entry = "scrape_examples_from_yaml"
        /\ ~Called("scrape_examples_from_yaml")
        /\ ~Escapes(locals.game_info)
        /\ loop.i < Len(arg.examples)
        /\ \E k \in Responses(arg.examples[loop.i + 1].url), write_error \in BOOLEAN :
              Pass(YamlPass(db, arg.examples[loop.i + 1], loop.game_id_base, k,
                            write_error))
        /\ UNCHANGED arg

\* scrape_examples_from_yaml when the file has no examples.
ScrapeNoExamples ==
    /\ arg.entry = "scrape_examples_from_yaml"
    /\ ~Called("scrape_examples_from_yaml")
    /\ arg.examples = <<>>
    /\ ret' = ("scrape_examples_from_yaml" :> <<>>) @@ ret
    /\ UNCHANGED <<arg, db, loop, locals>>

Next ==
    \/ CallScrapeGameFromUrl
    \/ ScrapeGameIdRange
    \/ ScrapeNoGameIds
    \/ ScrapeExamplesFromYaml
    \/ ScrapeNoExamples

Spec == Init /\ [][Next]_vars

\* ------------------------- write_game_to_database, statement by statement
\* The statements write_game_to_database executes on its connection, one a
\* step: locals.pending is the database as the connection sees it inside its
\* transaction, db the database as committed, locals.pc the next statement.

\* The statements that write rows, in the order of execution.
WriteStatements(game_info) ==
    LET Inserts(table, rows) ==
            [k \in 1..Len(rows) |-> [op |-> "insert", table |-> table, row |-> rows[k]]]
        Children(table, rows) ==
            <<[op |-> "delete", table |-> table, row |-> <<>>]>> \o Inserts(table, rows)
    IN  <<[op |-> "replace", table |-> "games_extended", row |-> GameRow(game_info)]>>
        \o Children("goals", GoalRows(game_info))
        \o Children("penalties", PenaltyRows(game_info))
        \o Children("officials", OfficialRows(game_info))

\* cursor.execute(statement) on the database d of the transaction.
Execute(d, game_id, statement) ==
    IF statement.op = "replace"
    THEN [d EXCEPT !.games_extended = (game_id :> statement.row) @@ d.games_extended]
    ELSE IF statement.op = "delete"
    THEN [d EXCEPT ![statement.table] = DeleteGame(d[statement.table], game_id)]
    ELSE [d EXCEPT ![statement.table] = Append(d[statement.table], statement.row)]

\* A connection that commits every statement as it is executed.
CommittedAtOnce(d, pending) == pending

\* The committed database after a statement has been executed in the
\* transaction the first writing statement opened: as it was.
CommittedAfterExecute(d, pending) == d

\* The games written: game 2 as three reports give it.
WriteArgs ==
    {[entry |-> "write_game_to_database", db |-> d,
      game_info |-> Extracted(OfficialExtracts, 2, "regular", k)] :
        d \in {EmptyDb, StoredGame(1), StoredGame(2)}, k \in {1, 2, 6}}

InitWrite ==
    /\ arg \in WriteArgs
    /\ ret = NothingCalled
    /\ db = arg.db
    /\ loop = [i |-> 0, results |-> <<>>, game_id_base |-> 0]
    /\ locals = [pc |-> 1, pending |-> arg.db]

\* sqlite3.Error leaves the try block: nothing is committed, the connection
\* is dropped with its transaction, and False is returned.
WriteFailed ==
    /\ ret' = ("write_game_to_database" :> FALSE) @@ ret
    /\ locals' = [pc |-> locals.pc, pending |-> db]
    /\ db' = db

\* The next statement is executed, or raises.
WriteExecute ==
    LET statement == WriteStatements(arg.game_info)[locals.pc]
        Executed(pending) ==
            /\ locals' = [pc |-> locals.pc + 1, pending |-> pending]
            /\ db' = CommittedAfterExecute(db, pending)
            /\ ret' = ret
    IN  /\ ~Called("write_game_to_database")
        /\ locals.pc \in 1..Len(WriteStatements(arg.game_info))
        /\ \E error \in BOOLEAN :
              IF error THEN WriteFailed
              ELSE Executed(Execute(locals.pending, arg.game_info.game_id, statement))
        /\ UNCHANGED <<arg, loop>>

\* conn.commit(), or its failure.
WriteCommit ==
    /\ ~Called("write_game_to_database")
    /\ locals.pc = Len(WriteStatements(arg.game_info)) + 1
    /\ \E error \in BOOLEAN :
          IF error THEN WriteFailed
          ELSE /\ db' = locals.pending
               /\ locals' = [pc |-> 0, pending |-> locals.pending]
               /\ ret' = ("write_game_to_database" :> TRUE) @@ ret
    /\ UNCHANGED <<arg, loop>>

NextWrite == WriteExecute \/ WriteCommit

SpecWrite == InitWrite /\ [][NextWrite]_vars

\* C29: while write_game_to_database runs and after it has returned False
\* the committed database is the one it was called on, the game row and the
\* goals, penalties and officials of the game included; the only other
\* database it leaves is the one with the game written in full, on True.
C29_AllOrNothing ==
    /\ ~Called("write_game_to_database") => db = arg.db
    /\ Called("write_game_to_database") =>
          IF ret["write_game_to_database"]
          THEN db = write_game_to_database(arg.db, arg.game_info, FALSE).db
          ELSE db = arg.db

\* The write of game 2 over the stored game 2 has failed at the insert of
\* its second goal, the game row replaced and the stored goals deleted in the
\* transaction: the stored row and goals are in place.
C29_Witness ==
    /\ Called("write_game_to_database")
    /\ ~ret["write_game_to_database"]
    /\ locals.pc = 4
    /\ WriteStatements(arg.game_info)[4].op = "insert"
    /\ WriteStatements(arg.game_info)[4].table = "goals"
    /\ arg.db = StoredGame(2)
    /\ arg.game_info.game_status = "Final/SO"
    /\ db.games_extended[2].game_status = "Final"
    /\ db.goals = arg.db.goals
    /\ \E k \in 1..Len(db.goals) : db.goals[k].game_id = 2

\* ------------------------------------------- program.py: the batch run

\* The exception the try block of write_game_data raises first on the list
\* game_details, "" when none raises: get_game_status is called first, and
\* the other helpers only for a status that starts with "Final".
WriteException(game_details) ==
    IF get_game_status(game_details).raised # ""
    THEN get_game_status(game_details).raised
    ELSE IF ~StartsWith(get_game_status(game_details).value, "Final") THEN ""
    ELSE IF get_away_team(game_details).raised # ""
    THEN get_away_team(game_details).raised
    ELSE IF get_home_team(game_details).raised # ""
    THEN get_home_team(game_details).raised
    ELSE IF get_date(game_details) \in {"IndexError", "ValueError"}
    THEN get_date(game_details)
    ELSE IF ~HasFromEnd(game_details, 3) THEN "IndexError"
    ELSE IF ShotsRaises(game_details, "home") \/ ShotsRaises(game_details, "away")
    THEN "IndexError"
    ELSE ""

\* except IndexError
CaughtByWriteGameData(exception) == exception = "IndexError"

\* The list write_game_data binds to INSERT INTO games.
GamesRow(game_id, game_details) ==
    [game_id |-> game_id,
     away_team |-> get_away_team(game_details).value,
     away_team_score |-> get_away_team_score(game_details).value,
     home_team |-> get_home_team(game_details).value,
     home_team_score |-> get_home_team_score(game_details).value,
     game_status |-> get_game_status(game_details).value,
     game_date |-> get_date(game_details),
     game_attendance |-> get_attendance(game_details),
     home_team_shots |-> get_shots_on_goal(game_details, "home"),
     away_team_shots |-> get_shots_on_goal(game_details, "away")]

\* What write_game_data does with what get_game_details returned: the table
\* it inserts into and the row, or the exception that leaves it.
WriteOutcome(game_id, game_details) ==
    LET Nothing == [table |-> "none", row |-> <<>>, raised |-> ""]
        Leaves(exception) ==
            IF CaughtByWriteGameData(exception) THEN Nothing
            ELSE [Nothing EXCEPT !.raised = exception]
    IN  IF game_details.none THEN Leaves("TypeError")
        ELSE IF game_details.items = <<NO_SUCH_GAME>>
        THEN [Nothing EXCEPT !.table = "unplayed_games"]
        ELSE IF game_details.items = <<NOT_AVAILABLE>> THEN Nothing
        ELSE IF WriteException(game_details.items) # ""
        THEN Leaves(WriteException(game_details.items))
        ELSE IF ~StartsWith(get_game_status(game_details.items).value, "Final")
        THEN Nothing
        ELSE [table |-> "games", row |-> GamesRow(game_id, game_details.items),
              raised |-> ""]

\* write_game_data for each of TextResponses, worked out once.
WriteOutcomes ==
    {<<game_id, k, WriteOutcome(game_id, get_game_details(TextResponses[k]))>> :
        game_id \in GameIds, k \in 1..Len(TextResponses)}

\* An insert that files a game without a report among the games as well.
InsertUnplayedIntoGames(d, outcome, game_id) ==
    IF outcome.table = "unplayed_games"
    THEN [d EXCEPT !.unplayed_games = d.unplayed_games \cup {game_id},
                   !.games = (game_id :> outcome.row) @@ d.games]
    ELSE IF outcome.table = "games" /\ game_id \notin DOMAIN d.games
    THEN [d EXCEPT !.games = (game_id :> outcome.row) @@ d.games]
    ELSE d

\* INSERT OR REPLACE INTO <table>: the row of a game_id the table holds is
\* written over.
InsertOrReplaceGame(d, outcome, game_id) ==
    IF outcome.table = "unplayed_games"
    THEN [d EXCEPT !.unplayed_games = d.unplayed_games \cup {game_id}]
    ELSE IF outcome.table = "games"
    THEN [d EXCEPT !.games = (game_id :> outcome.row) @@ d.games]
    ELSE d

\* INSERT INTO <table>, game_id the primary key: sqlite3.IntegrityError for a
\* game_id the table holds is caught and the table is left as it was.
InsertGame(d, outcome, game_id) ==
    IF outcome.table = "unplayed_games"
    THEN [d EXCEPT !.unplayed_games = d.unplayed_games \cup {game_id}]
    ELSE IF outcome.table = "games" /\ game_id \notin DOMAIN d.games
    THEN [d EXCEPT !.games = (game_id :> outcome.row) @@ d.games]
    ELSE d

\* write_game_data(game_id) on database d when the request is answered with
\* answer k of Responses(TEXT_URL); answer 0 is requests.get raising, which
\* nothing in program.py catches.
write_game_data(d, game_id, k) ==
    LET Wrote(outcome) == [db |-> InsertGame(d, outcome, game_id), raised |-> outcome.raised]
    IN  IF k = 0 THEN [db |-> d, raised |-> "RequestException"]
        ELSE Wrote((CHOOSE e \in WriteOutcomes : e[1] = game_id /\ e[2] = k)[3])

\* process_game_range returned None.
ReturnedNone == [none |-> TRUE]

\* The calls of process_game_range: start_game_id is <<>> for None and
\* <<i>> for the int i.
ProgramCalls ==
    {[entry |-> "process_game_range", start_game_id |-> start_game_id,
      range_count |-> range_count] :
        start_game_id \in {<<>>, <<1>>}, range_count \in 0..MaxGames}

\* games.db after an earlier run has written the played game game_id.
WrittenGame(game_id) == write_game_data(EmptyDb, game_id, 1).db

\* The answer of TextResponses whose body is body.
AnswerOf(body) ==
    CHOOSE k \in 1..Len(TextResponses) : TextResponses[k] = LineResponse(body)

\* games.db after an earlier run has found no game game_id.
UnplayedGame(game_id) == write_game_data(EmptyDb, game_id, AnswerOf(NO_SUCH_GAME)).db

InitProgram ==
    /\ arg \in ProgramCalls
    /\ ret = NothingCalled
    /\ db \in {EmptyDb, WrittenGame(2), UnplayedGame(1)}
    /\ loop = [i |-> 0, results |-> <<>>, game_id_base |-> 0]
    /\ locals = NoLocals

\* process_game_range: a pass of its loop, write_game_data(i); an exception
\* that leaves write_game_data leaves process_game_range, and the last pass
\* returns.
ProcessGameRange ==
    LET Passed(k, write) ==
            /\ db' = write.db
            /\ locals' = [url |-> TEXT_URL, response |-> k, game_info |-> NoGameInfo,
                          written |-> write.db # db]
            /\ loop' = [loop EXCEPT !.i = loop.i + 1]
            /\ ret' = IF write.raised # ""
                      THEN ("process_game_range" :> Escaped(write.raised)) @@ ret
                      ELSE IF loop.i + 1 = arg.range_count
                      THEN ("process_game_range" :> ReturnedNone) @@ ret
                      ELSE ret
    IN  /\ arg.entry = "process_game_range"
        /\ ~Called("process_game_range")
        /\ arg.start_game_id # <<>>
        /\ loop.i < arg.range_count
        /\ \E k \in Responses(TEXT_URL) :
              Passed(k, write_game_data(db, arg.start_game_id[1] + loop.i, k))
        /\ UNCHANGED arg

\* process_game_range with no start_game_id, or over no game ids.
ProcessNoGames ==
    /\ arg.entry = "process_game_range"
    /\ ~Called("process_game_range")
    /\ arg.start_game_id = <<>> \/ arg.range_count = 0
    /\ ret' = ("process_game_range" :> ReturnedNone) @@ ret
    /\ UNCHANGED <<arg, db, loop, locals>>

NextProgram == ProcessGameRange \/ ProcessNoGames

SpecProgram == InitProgram /\ [][NextProgram]_vars

\* The interpreter runs process_game_range until it returns or raises.
FairSpecProgram == SpecProgram /\ WF_vars(NextProgram)

\* The pass of process_game_range taken in a step: its game id, and whether
\* an exception left write_game_data.
PassedGameId == arg.start_game_id[1] + loop.i

PassRaised ==
    /\ "process_game_range" \in DOMAIN ret'
    /\ Escapes(ret'["process_game_range"])

\* C24: a pass of write_game_data whose report is "No such game" leaves the
\* game id in unplayed_games (the table is as before when it held the id),
\* one whose report is "This game is not available." records nothing, and
\* either leaves the games table as it was and raises nothing.
C24_NotPlayableIsAnOutcome ==
    [][(loop'.i = loop.i + 1 /\ locals'.response # 0) =>
         /\ locals'.response = AnswerOf(NO_SUCH_GAME) =>
               /\ db'.unplayed_games = db.unplayed_games \cup {PassedGameId}
               /\ PassedGameId \in db.unplayed_games => db' = db
               /\ db'.games = db.games
               /\ ~PassRaised
         /\ locals'.response = AnswerOf(NOT_AVAILABLE) =>
               /\ db' = db
               /\ ~PassRaised]_vars

\* Game id 1, on record as unplayed, has been reported as no such game once
\* more: nothing was written and nothing raised.
C24_Witness ==
    /\ loop.i = 1
    /\ locals.response = AnswerOf(NO_SUCH_GAME)
    /\ ~locals.written
    /\ db = UnplayedGame(1)
    /\ db.unplayed_games = {1}
    /\ \A f \in DOMAIN ret : ~Escapes(ret[f])

\* C25: a pass of write_game_data over a game id the games table holds
\* leaves the table as it was, the row of the game id with the values it
\* had and no row added, and raises nothing for the duplicate.
C25_StoredGameKeepsItsRow ==
    [][(/\ loop'.i = loop.i + 1
        /\ locals'.response \in {1, 2, 4}
        /\ PassedGameId \in DOMAIN db.games) =>
         /\ db'.games = db.games
         /\ db' = db
         /\ ~PassRaised]_vars

\* Game id 2, stored from a report of a game ended in regulation, has been
\* processed again with a report of a game decided by a shootout, and its
\* row is the one of the first report.
C25_Witness ==
    /\ loop.i = 2
    /\ locals.response = 2
    /\ ~locals.written
    /\ 2 \in DOMAIN db.games
    /\ db.games[2] = GamesRow(2, get_game_details(TextResponses[1]).items)
    /\ db.games[2] # GamesRow(2, get_game_details(TextResponses[2]).items)
    /\ "process_game_range" \in DOMAIN ret
    /\ ret["process_game_range"] = ReturnedNone

\* C14 as stated: a run of process_game_range over a range of game ids in
\* which every request is answered eventually attempts every game id of the
\* range, whatever the earlier game ids' reports were.
C14_AsStated ==
    <>(\/ arg.start_game_id = <<>>
       \/ loop.i = arg.range_count
       \/ /\ Called("process_game_range")
          /\ Escapes(ret["process_game_range"])
          /\ ret["process_game_range"].raised = "RequestException")

\* The rows of a child table that belong to game_id, in the order they
\* were inserted.
RowsOf(rows, game_id) == SelectSeq(rows, LAMBDA row : row.game_id = game_id)

\* Databases d and e hold the same row and the same child rows for game_id.
SameGame(d, e, game_id) ==
    /\ (game_id \in DOMAIN d.games_extended) <=> (game_id \in DOMAIN e.games_extended)
    /\ game_id \in DOMAIN d.games_extended =>
          d.games_extended[game_id] = e.games_extended[game_id]
    /\ RowsOf(d.goals, game_id) = RowsOf(e.goals, game_id)
    /\ RowsOf(d.penalties, game_id) = RowsOf(e.penalties, game_id)
    /\ RowsOf(d.officials, game_id) = RowsOf(e.officials, game_id)

\* Database d holds game_info: its one games_extended row, and its goals,
\* penalties and officials as the child rows of its game id.
Holds(d, game_info) ==
    /\ game_info.game_id \in DOMAIN d.games_extended
    /\ d.games_extended[game_info.game_id] = GameRow(game_info)
    /\ RowsOf(d.goals, game_info.game_id) = GoalRows(game_info)
    /\ RowsOf(d.penalties, game_info.game_id) = PenaltyRows(game_info)
    /\ RowsOf(d.officials, game_info.game_id) = OfficialRows(game_info)

\* A pass of a batch loop has written its game.
WroteGame == loop'.i = loop.i + 1 /\ locals'.written

UpsertStep ==
    WroteGame =>
        /\ Holds(db', locals'.game_info)
        /\ \A game_id \in GameIds \ {locals'.game_info.game_id} :
              SameGame(db', db, game_id)
        /\ \A game_id \in GameIds :
              SameGame(write_game_to_database(db', locals'.game_info, FALSE).db, db',
                       game_id)

NotPlayableAnswer ==
    /\ locals.url # "none"
    /\ locals.response > 0
    /\ IF IsOfficialUrl(locals.url)
       THEN Strip(OfficialResponses[locals.response].text) \in {NOT_AVAILABLE, NO_SUCH_GAME}
       ELSE get_game_details(TextResponses[locals.response]).items
                \in {<<NOT_AVAILABLE>>, <<NO_SUCH_GAME>>}
\* ------------------------------------- the batch loops, call by call
\* The two batch loops with their calls of requests.get and time.sleep as
\* steps of their own: loop.pc is the next call of the pass, loop.calls the
\* calls made so far, in order.

DelayCalls ==
    {[entry |-> "scrape_game_id_range", start_game_id |-> 1, num_games |-> num_games] :
        num_games \in 0..(MaxGames + 1)}
    \cup
    {[entry |-> "process_game_range", start_game_id |-> <<1>>, range_count |-> range_count] :
        range_count \in 0..(MaxGames + 1)}

InitDelays ==
    /\ arg \in DelayCalls
    /\ ret = NothingCalled
    /\ db \in {EmptyDb, StoredGame(2)}
    /\ loop = [i |-> 0, results |-> <<>>, pc |-> "check", calls |-> <<>>]
    /\ locals = NoLocals

\* The loop after the call named has been made and with the pc given.
Made(run, call, pc) == [run EXCEPT !.calls = run.calls \o <<call>>, !.pc = pc]

\* An except clause that ends the pass at once, as a continue would.
NextPassAtOnce(run) == [run EXCEPT !.pc = "check", !.i = run.i + 1]

\* The except clause of scrape_game_id_range: the pass goes on to the
\* time.sleep(delay) that ends it.
AfterFetchError(run) == [run EXCEPT !.pc = "sleep"]

\* scrape_game_id_range, top of a pass: game_exists_in_database.
RangeCheck ==
    /\ arg.entry = "scrape_game_id_range"
    /\ loop.pc = "check"
    /\ loop.i < arg.num_games
    /\ \E exists_error \in BOOLEAN :
          loop' = [loop EXCEPT !.pc =
                     IF game_exists_in_database(db, arg.start_game_id + loop.i, exists_error)
                     THEN "skip" ELSE "get"]
    /\ UNCHANGED <<arg, ret, db, locals>>

\* The game is in the database: time.sleep(delay); continue.
RangeSkip ==
    /\ arg.entry = "scrape_game_id_range"
    /\ loop.pc = "skip"
    /\ loop' = [Made(loop, "sleep", "check") EXCEPT !.i = loop.i + 1]
    /\ UNCHANGED <<arg, ret, db, locals>>

\* The try block: requests.get, the report scraped and, with both teams
\* named, appended to the results and written.
RangeGet ==
    LET game_id == arg.start_game_id + loop.i
        Got == Made(loop, "get", "sleep")
        Scraped(game_info, write_error) ==
            IF game_info.away_team = None \/ game_info.home_team = None
            THEN loop' = Got /\ db' = db
            ELSE /\ loop' = [Got EXCEPT !.results = loop.results \o <<game_info>>]
                 /\ db' = write_game_to_database(db, game_info, write_error).db
    IN  /\ arg.entry = "scrape_game_id_range"
        /\ loop.pc = "get"
        /\ \E k \in Responses(OFFICIAL_URL), write_error \in BOOLEAN :
              IF k = 0
              THEN loop' = AfterFetchError(Got) /\ db' = db
              ELSE Scraped(Extracted(OfficialExtracts, game_id, "regular", k), write_error)
        /\ UNCHANGED <<arg, ret, locals>>

\* time.sleep(delay) at the end of the pass.
RangeSleep ==
    /\ arg.entry = "scrape_game_id_range"
    /\ loop.pc = "sleep"
    /\ loop' = [Made(loop, "sleep", "check") EXCEPT !.i = loop.i + 1]
    /\ UNCHANGED <<arg, ret, db, locals>>

RangeReturn ==
    /\ arg.entry = "scrape_game_id_range"
    /\ loop.pc = "check"
    /\ loop.i = arg.num_games
    /\ ret' = ("scrape_game_id_range" :> loop.results) @@ ret
    /\ loop' = [loop EXCEPT !.pc = "done"]
    /\ UNCHANGED <<arg, db, locals>>

\* process_game_range, top of a pass: time.sleep(1).
ProgramSleep ==
    /\ arg.entry = "process_game_range"
    /\ loop.pc = "check"
    /\ loop.i < arg.range_count
    /\ loop' = Made(loop, "sleep", "get")
    /\ UNCHANGED <<arg, ret, db, locals>>

\* write_game_data(i): requests.get and what follows it; an exception that
\* leaves write_game_data leaves the loop.
ProgramGet ==
    LET Wrote(write) ==
            /\ db' = write.db
            /\ IF write.raised # ""
               THEN /\ loop' = Made(loop, "get", "done")
                    /\ ret' = ("process_game_range" :> Escaped(write.raised)) @@ ret
               ELSE /\ loop' = [Made(loop, "get", "check") EXCEPT !.i = loop.i + 1]
                    /\ ret' = ret
    IN  /\ arg.entry = "process_game_range"
        /\ loop.pc = "get"
        /\ \E k \in Responses(TEXT_URL) :
              Wrote(write_game_data(db, arg.start_game_id[1] + loop.i, k))
        /\ UNCHANGED <<arg, locals>>

ProgramReturn ==
    /\ arg.entry = "process_game_range"
    /\ loop.pc = "check"
    /\ loop.i = arg.range_count
    /\ ret' = ("process_game_range" :> ReturnedNone) @@ ret
    /\ loop' = [loop EXCEPT !.pc = "done"]
    /\ UNCHANGED <<arg, db, locals>>

NextDelays ==
    \/ RangeCheck
    \/ RangeSkip
    \/ RangeGet
    \/ RangeSleep
    \/ RangeReturn
    \/ ProgramSleep
    \/ ProgramGet
    \/ ProgramReturn

SpecDelays == InitDelays /\ [][NextDelays]_vars

\* C28 as stated: a pass of scrape_game_id_range that starts with its game
\* id in games_extended makes no request, writes nothing and adds nothing to
\* the results; the results hold a game id once at most, in ascending order.
C28_AsStated ==
    [][arg.entry = "scrape_game_id_range" =>
         /\ (/\ loop.pc = "check"
             /\ loop.i < arg.num_games
             /\ arg.start_game_id + loop.i \in DOMAIN db.games_extended)
               => loop'.pc = "skip"
         /\ loop.pc = "skip" =>
               /\ db' = db
               /\ loop'.results = loop.results
               /\ loop'.calls = loop.calls \o <<"sleep">>
         /\ \A k \in 2..Len(loop'.results) :
               loop'.results[k - 1].game_id < loop'.results[k].game_id]_vars

\* C26: in both batch loops a time.sleep lies between any two consecutive
\* calls of requests.get, whatever the passes did: no two calls of
\* requests.get follow each other.
C26_DelayBetweenFetches ==
    \A n \in 1..(Len(loop.calls) - 1) :
        ~(loop.calls[n] = "get" /\ loop.calls[n + 1] = "get")

\* scrape_game_id_range has requested game 1 and game 3, game 2 being in the
\* database: the sleeps of the first two passes lie between the requests.
C26_Witness ==
    /\ arg.entry = "scrape_game_id_range"
    /\ loop.calls = <<"get", "sleep", "sleep", "get", "sleep">>
    /\ Called("scrape_game_id_range")

\* --------------------------------- two runs of scrape_game_id_range at once

\* The answers a run may get for a game id: the request fails, a played
\* game, a page that names no teams, a played game without a date.
TwoRunAnswers == {0, 1, 3, 6}

\* What happens to the passes for a game id, whichever run makes them: the
\* answer to the request and whether sqlite raises (at most once a pass).
GameAnswers ==
    {[k |-> k, exists_error |-> e[1], write_error |-> e[2]] :
        k \in TwoRunAnswers, e \in {<<FALSE, FALSE>>, <<TRUE, FALSE>>, <<FALSE, TRUE>>}}

\* Two runs over disjoint game ids: 1.. and 3.
TwoRuns ==
    {<<[start_game_id |-> 1, num_games |-> num_games],
       [start_game_id |-> MaxGames + 1, num_games |-> 1]>> : num_games \in 1..MaxGames}

RunAt(i) == [i |-> i, results |-> <<>>, pc |-> "check", game_info |-> NoGameInfo]

InitTwoRuns ==
    /\ arg \in {[entry |-> "two_runs", runs |-> runs, answers |-> answers, db |-> d] :
                  runs \in TwoRuns, answers \in [GameIds -> GameAnswers],
                  d \in {EmptyDb, StoredGame(2)}}
    /\ ret = NothingCalled
    /\ db = arg.db
    /\ loop = [run |-> <<RunAt(0), RunAt(0)>>, interleaved |-> FALSE]
    /\ locals = NoLocals

\* Run r has started and has passes left.
Running(r) ==
    /\ loop.run[r].i < arg.runs[r].num_games
    /\ loop.run[r].i > 0 \/ loop.run[r].pc = "write"

\* The step of run r leaves the run in state run and the database as d.
TwoRunsStep(r, run, d) ==
    /\ db' = d
    /\ loop' = [run |-> [loop.run EXCEPT ![r] = run],
                interleaved |-> loop.interleaved \/ Running(3 - r)]
    /\ ret' = IF run.i = arg.runs[r].num_games
              THEN (<<"scrape_game_id_range", r>> :> run.results) @@ ret
              ELSE ret
    /\ UNCHANGED <<arg, locals>>

\* Run r, first half of a pass of the loop of scrape_game_id_range: the game
\* is looked up, requested and scraped; a game to write is appended to the
\* results.
RangeScrape(r) ==
    LET run == loop.run[r]
        game_id == arg.runs[r].start_game_id + run.i
        answer == arg.answers[game_id]
        game_info == Extracted(OfficialExtracts, game_id, "regular", answer.k)
        Skipped == [run EXCEPT !.i = run.i + 1]
    IN  /\ run.pc = "check"
        /\ run.i < arg.runs[r].num_games
        /\ IF game_exists_in_database(db, game_id, answer.exists_error) \/ answer.k = 0
           THEN TwoRunsStep(r, Skipped, db)
           ELSE IF game_info.away_team = None \/ game_info.home_team = None
           THEN TwoRunsStep(r, Skipped, db)
           ELSE TwoRunsStep(r, [run EXCEPT !.pc = "write", !.game_info = game_info,
                                           !.results = run.results \o <<game_info>>], db)

\* Run r, second half of the pass: write_game_to_database.
RangeWrite(r) ==
    LET run == loop.run[r]
        game_id == arg.runs[r].start_game_id + run.i
        write == write_game_to_database(db, run.game_info,
                                        arg.answers[game_id].write_error)
    IN  /\ run.pc = "write"
        /\ TwoRunsStep(r, [run EXCEPT !.pc = "check", !.game_info = NoGameInfo,
                                      !.i = run.i + 1], write.db)

NextTwoRuns == \E r \in 1..2 : RangeScrape(r) \/ RangeWrite(r)

SpecTwoRuns == InitTwoRuns /\ [][NextTwoRuns]_vars

\* scrape_game_id_range(run.start_game_id, run.num_games) on database d from
\* pass i on, run on its own: the results and the database it leaves.
RECURSIVE RunAlone(_, _, _, _, _)
RunAlone(d, run, answers, i, results) ==
    LET game_id == run.start_game_id + i
        Pass(pass) == RunAlone(pass.db, run, answers, i + 1, results \o pass.added)
    IN  IF i = run.num_games THEN [db |-> d, results |-> results]
        ELSE Pass(RangePass(d, game_id, answers[game_id].exists_error, answers[game_id].k,
                            answers[game_id].write_error))

\* The runs one after the other, first first and then second.
OneAfterTheOther(first, second) ==
    RunAlone(RunAlone(arg.db, arg.runs[first], arg.answers, 0, <<>>).db,
             arg.runs[second], arg.answers, 0, <<>>)

BothReturned ==
    /\ Called(<<"scrape_game_id_range", 1>>)
    /\ Called(<<"scrape_game_id_range", 2>>)

C18_TextReportNeverRaises ==
    /\ (Called("scrape_game_from_url") /\ ~IsOfficialUrl(arg.url)) =>
          ~Escapes(ret["scrape_game_from_url"])
    /\ (locals.url # "none" /\ ~IsOfficialUrl(locals.url)) => ~Escapes(locals.game_info)

\* The text-report URL was answered with a body that is no report, and with
\* a report that has no scores in its header: scrape_game_from_url has
\* returned None.
C18_Witness ==
    /\ Called("scrape_game_from_url")
    /\ ~IsOfficialUrl(arg.url)
    /\ locals.response \in {8, 9}
    /\ ExtractException(get_game_details(TextResponses[locals.response]).items)
          = "AttributeError"
    /\ ret["scrape_game_from_url"] = NoGameInfo

\* C15 as stated: no game is stored whose team names or date could not be
\* recovered from its report: every row of games_extended names both teams
\* and carries a date.
C15_AsStated ==
    \A game_id \in DOMAIN db.games_extended :
        /\ db.games_extended[game_id].away_team # None
        /\ db.games_extended[game_id].home_team # None
        /\ db.games_extended[game_id].game_date \notin {"None", ""}

\* C16 as stated: for a line report with a complete header, a date, an
\* attendance line and a shots line but no Referees-/Linesmen- lines and no
\* period lines, extract_game_info returns a GameInfo whose referees,
\* linespersons, goals and penalties are empty.
C16_AsStated ==
    /\ arg \in ExtractArgs
    /\ arg.kind = "line"
    /\ arg.shape.header = "ok" /\ arg.shape.date /\ arg.shape.shots
    /\ arg.shape.attendance = "A-6,212"
    /\ ~arg.shape.officials /\ arg.shape.periods = "none"
    /\ Called("extract_game_info")
    => /\ ~ret["extract_game_info"].none
       /\ ret["extract_game_info"].referees = <<>>
       /\ ret["extract_game_info"].linespersons = <<>>
       /\ ret["extract_game_info"].goals = <<>>
       /\ ret["extract_game_info"].penalties = <<>>

\* C6 as stated: through every entry point, a report of a game that is not
\* yet played or does not exist yields no GameInfo and no game row is
\* written for it.
C6_AsStated ==
    NotPlayableAnswer => (locals.game_info.none /\ ~locals.written)

\* The team label t is resolved.
TeamResolved(t) == t # None /\ t # ""

TeamsResolved(game) == TeamResolved(game.away_team) /\ TeamResolved(game.home_team)

\* C8 as stated: no game with an empty or null away or home team label is
\* returned by an entry point or stored in games_extended.
C8_AsStated ==
    /\ \A game_id \in DOMAIN db.games_extended : TeamsResolved(db.games_extended[game_id])
    /\ \A k \in 1..Len(loop.results) : TeamsResolved(loop.results[k])
    /\ (Called("scrape_game_from_url") /\ ~ret["scrape_game_from_url"].none) =>
          TeamsResolved(ret["scrape_game_from_url"])

====
